---------------------------- MODULE Spec2Model ----------------------------
(***************************************************************************)
(* Model of the send2ue validation pipeline (core/validations.py) and of   *)
(* the naming / LOD / collision utilities (core/utilities.py).             *)
(*                                                                         *)
(* Strings are sequences of one-character strings, so that slicing,        *)
(* strip(), replace(), re.escape() and the regular expressions built by    *)
(* string concatenation are computed character by character.               *)
(***************************************************************************)
EXTENDS Integers, Sequences, FiniteSets, TLC

(***************************************************************************)
(* Characters                                                              *)
(***************************************************************************)
UpperLetters == {"L", "U", "B", "X", "C", "P", "S", "N", "O", "E", "R"}
LowerLetters == {"l", "u", "b", "x", "c", "p", "s", "i", "m", "d", "n", "o", "e", "r"}
Digits == {"0", "1", "2"}
Whitespace == {" "}

IsAsciiLetter(c) == c \in UpperLetters \cup LowerLetters

\* str.lower() on one character (the case folding re.IGNORECASE compares with)
Lower(c) ==
    CASE c = "L" -> "l" [] c = "U" -> "u" [] c = "B" -> "b" [] c = "X" -> "x"
      [] c = "C" -> "c" [] c = "P" -> "p" [] c = "S" -> "s" [] c = "N" -> "n"
      [] c = "O" -> "o" [] c = "E" -> "e" [] c = "R" -> "r" [] OTHER -> c

RECURSIVE LowerStr(_)
LowerStr(s) == IF s = <<>> THEN <<>> ELSE <<Lower(Head(s))>> \o LowerStr(Tail(s))

\* str.upper() and str.swapcase() on one character
Upper(c) ==
    CASE c = "l" -> "L" [] c = "u" -> "U" [] c = "b" -> "B" [] c = "x" -> "X"
      [] c = "c" -> "C" [] c = "p" -> "P" [] c = "s" -> "S" [] c = "n" -> "N"
      [] c = "o" -> "O" [] c = "e" -> "E" [] c = "r" -> "R" [] OTHER -> c

SwapCase(s) == [k \in 1..Len(s) |-> IF s[k] \in UpperLetters THEN Lower(s[k]) ELSE Upper(s[k])]

\* the code point order Python compares strings by
Ord(c) ==
    CASE c = " " -> 32 [] c = "(" -> 40 [] c = ")" -> 41 [] c = "*" -> 42
      [] c = "+" -> 43 [] c = "-" -> 45 [] c = "0" -> 48 [] c = "1" -> 49
      [] c = "2" -> 50 [] c = ":" -> 58 [] c = "?" -> 63 [] c = "B" -> 66
      [] c = "C" -> 67 [] c = "E" -> 69 [] c = "L" -> 76 [] c = "N" -> 78
      [] c = "O" -> 79 [] c = "P" -> 80 [] c = "R" -> 82 [] c = "S" -> 83
      [] c = "U" -> 85 [] c = "X" -> 88 [] c = "\\" -> 92 [] c = "_" -> 95
      [] c = "b" -> 98 [] c = "c" -> 99 [] c = "d" -> 100 [] c = "e" -> 101
      [] c = "i" -> 105 [] c = "l" -> 108 [] c = "m" -> 109 [] c = "n" -> 110
      [] c = "o" -> 111 [] c = "p" -> 112 [] c = "r" -> 114 [] c = "s" -> 115
      [] c = "u" -> 117 [] c = "x" -> 120 [] c = "|" -> 124

\* a < b for Python strings
RECURSIVE StrLess(_, _)
StrLess(a, b) ==
    IF b = <<>> THEN FALSE
    ELSE IF a = <<>> THEN TRUE
    ELSE IF Head(a) = Head(b) THEN StrLess(Tail(a), Tail(b))
    ELSE Ord(Head(a)) < Ord(Head(b))

\* int() of a one-character string; -1 stands for ValueError
DigitValue(c) ==
    CASE c = "0" -> 0 [] c = "1" -> 1 [] c = "2" -> 2 [] OTHER -> -1

(***************************************************************************)
(* String helpers (Python str methods)                                     *)
(***************************************************************************)
Last(s) == s[Len(s)]
Front(s) == SubSeq(s, 1, Len(s) - 1)

StartsWith(s, pre) ==
    /\ Len(pre) <= Len(s)
    /\ SubSeq(s, 1, Len(pre)) = pre

RECURSIVE LStrip(_)
LStrip(s) ==
    IF s # <<>> /\ Head(s) \in Whitespace THEN LStrip(Tail(s)) ELSE s

RECURSIVE RStrip(_)
RStrip(s) ==
    IF s # <<>> /\ Last(s) \in Whitespace THEN RStrip(Front(s)) ELSE s

\* str.strip()
Strip(s) == RStrip(LStrip(s))

\* str.replace(old, new): every non-overlapping occurrence, left to right;
\* an empty old inserts new before every character and at the end
RECURSIVE ReplaceFrom(_, _, _, _)
ReplaceFrom(s, old, new, i) ==
    IF i > Len(s) THEN <<>>
    ELSE IF i + Len(old) - 1 <= Len(s) /\ SubSeq(s, i, i + Len(old) - 1) = old
         THEN new \o ReplaceFrom(s, old, new, i + Len(old))
         ELSE <<s[i]>> \o ReplaceFrom(s, old, new, i + 1)

RECURSIVE Interleave(_, _)
Interleave(s, new) ==
    IF s = <<>> THEN new ELSE new \o <<Head(s)>> \o Interleave(Tail(s), new)

Replace(s, old, new) ==
    IF old = <<>> THEN Interleave(s, new) ELSE ReplaceFrom(s, old, new, 1)

\* characters re.escape() prefixes with a backslash
EscapeSpecial == {"(", ")", "?", "*", "+", "|", "\\", " ", "-"}

RECURSIVE ReEscape(_)
ReEscape(s) ==
    IF s = <<>> THEN <<>>
    ELSE (IF Head(s) \in EscapeSpecial THEN <<"\\", Head(s)>> ELSE <<Head(s)>>)
         \o ReEscape(Tail(s))


(***************************************************************************)
(* Regular expressions: the syntax tree re.compile() builds                *)
(***************************************************************************)
Emp == [k |-> "empty"]
Dig == [k |-> "digit"]
Spc == [k |-> "space"]
Lit(c, ic) == [k |-> "lit", c |-> c, ic |-> ic]
Cat(a, b) == [k |-> "cat", a |-> a, b |-> b]
Alt(a, b) == [k |-> "alt", a |-> a, b |-> b]
Grp(n, a) == [k |-> "grp", n |-> n, a |-> a]
Ncg(a) == [k |-> "ncg", a |-> a]
Rep(a, min, inf, mode) ==
    [k |-> "rep", a |-> a, min |-> min, inf |-> inf, mode |-> mode]

RECURSIVE CatAll(_)
CatAll(items) ==
    IF items = <<>> THEN Emp
    ELSE IF Len(items) = 1 THEN items[1]
    ELSE Cat(Head(items), CatAll(Tail(items)))

\* inline flag letters that are accepted and modelled: only "i" changes how
\* the patterns of this model match ("m" and "s" act on ^, $ and ".")
FlagLetters == {"i", "m", "s"}
Quantifiers == {"*", "+", "?"}

PErr == [err |-> TRUE, node |-> Emp, i |-> 0, ng |-> 0]
POk(node, i, ng) == [err |-> FALSE, node |-> node, i |-> i, ng |-> ng]

FErr == [err |-> TRUE, kind |-> "none", i |-> 0, hasI |-> FALSE]

\* sre_parse._parse_flags: the letters after "(?" up to ")" or ":"
RECURSIVE ParseFlags(_, _, _)
ParseFlags(p, j, hasI) ==
    IF p[j] \notin FlagLetters THEN FErr
    ELSE IF j + 1 > Len(p) THEN FErr
    ELSE LET n == p[j + 1]
             h == hasI \/ p[j] = "i"
         IN  CASE n = ")" -> [err |-> FALSE, kind |-> "global", i |-> j + 2, hasI |-> h]
               [] n = ":" -> [err |-> FALSE, kind |-> "scoped", i |-> j + 2, hasI |-> h]
               [] OTHER -> ParseFlags(p, j + 1, h)

IsFlagGroupStart(p, i) ==
    /\ i + 2 <= Len(p)
    /\ p[i] = "("
    /\ p[i + 1] = "?"
    /\ IsAsciiLetter(p[i + 2])

\* global flag groups are accepted only at the very start of the expression
RECURSIVE LeadingGlobal(_, _, _)
LeadingGlobal(p, i, ic) ==
    IF ~IsFlagGroupStart(p, i) THEN [err |-> FALSE, i |-> i, ic |-> ic]
    ELSE LET f == ParseFlags(p, i + 2, FALSE)
         IN  IF f.err THEN [err |-> TRUE, i |-> i, ic |-> ic]
             ELSE IF f.kind = "global" THEN LeadingGlobal(p, f.i, ic \/ f.hasI)
             ELSE [err |-> FALSE, i |-> i, ic |-> ic]

RECURSIVE ParseSub(_, _, _, _)
RECURSIVE ParseItems(_, _, _, _, _)
RECURSIVE ParseGroup(_, _, _, _, _)

\* sre_parse._parse_sub: branches separated by "|"
ParseSub(p, i, ng, ic) ==
    LET r == ParseItems(p, i, ng, ic, <<>>)
    IN  IF r.err THEN r
        ELSE IF r.i <= Len(p) /\ p[r.i] = "|"
        THEN LET r2 == ParseSub(p, r.i + 1, r.ng, ic)
             IN  IF r2.err THEN r2 ELSE POk(Alt(r.node, r2.node), r2.i, r2.ng)
        ELSE r

\* a group "(" at position i, followed by the rest of the branch
ParseGroup(p, i, ng, ic, items) ==
    IF i + 1 <= Len(p) /\ p[i + 1] = "?"
    THEN IF i + 2 > Len(p) THEN PErr
         ELSE IF p[i + 2] = ":"
         THEN LET r == ParseSub(p, i + 3, ng, ic)
              IN  IF r.err \/ r.i > Len(p) \/ p[r.i] # ")" THEN PErr
                  ELSE ParseItems(p, r.i + 1, r.ng, ic, Append(items, Ncg(r.node)))
         ELSE IF IsFlagGroupStart(p, i)
         THEN LET f == ParseFlags(p, i + 2, FALSE)
              IN  IF f.err \/ f.kind = "global" THEN PErr
                  ELSE LET r == ParseSub(p, f.i, ng, ic \/ f.hasI)
                       IN  IF r.err \/ r.i > Len(p) \/ p[r.i] # ")" THEN PErr
                           ELSE ParseItems(p, r.i + 1, r.ng, ic,
                                           Append(items, Ncg(r.node)))
         ELSE PErr
    ELSE LET r == ParseSub(p, i + 1, ng + 1, ic)
         IN  IF r.err \/ r.i > Len(p) \/ p[r.i] # ")" THEN PErr
             ELSE ParseItems(p, r.i + 1, r.ng, ic,
                             Append(items, Grp(ng + 1, r.node)))

\* sre_parse._parse: the items of one branch, up to "|", ")" or the end
ParseItems(p, i, ng, ic, items) ==
    IF i > Len(p) \/ p[i] \in {"|", ")"} THEN POk(CatAll(items), i, ng)
    ELSE IF p[i] \in Quantifiers
    THEN IF items = <<>> THEN PErr
         ELSE IF Last(items).k = "rep" THEN PErr
         ELSE LET item == Last(items)
                  min == IF p[i] = "+" THEN 1 ELSE 0
                  inf == p[i] # "?"
                  suffix == IF i + 1 <= Len(p) THEN p[i + 1] ELSE ""
                  mode == CASE suffix = "?" -> "lazy"
                            [] suffix = "+" -> "possessive"
                            [] OTHER -> "greedy"
                  next == IF mode = "greedy" THEN i + 1 ELSE i + 2
              IN  ParseItems(p, next, ng, ic,
                             Append(Front(items), Rep(item, min, inf, mode)))
    ELSE IF p[i] = "("
    THEN ParseGroup(p, i, ng, ic, items)
    ELSE IF p[i] = "\\"
    THEN IF i + 1 > Len(p) THEN PErr
         ELSE IF p[i + 1] = "d" THEN ParseItems(p, i + 2, ng, ic, Append(items, Dig))
         ELSE IF p[i + 1] = "s" THEN ParseItems(p, i + 2, ng, ic, Append(items, Spc))
         ELSE IF IsAsciiLetter(p[i + 1]) \/ p[i + 1] \in Digits THEN PErr
         ELSE ParseItems(p, i + 2, ng, ic, Append(items, Lit(p[i + 1], ic)))
    ELSE ParseItems(p, i + 1, ng, ic, Append(items, Lit(p[i], ic)))

\* re.compile(pattern, flags); ic is re.IGNORECASE in flags; err is re.error
Compile(p, ic) ==
    LET pre == LeadingGlobal(p, 1, ic)
    IN  IF pre.err THEN PErr
        ELSE LET r == ParseSub(p, pre.i, 0, pre.ic)
             IN  IF r.err \/ r.i <= Len(p) THEN PErr ELSE r

(***************************************************************************)
(* Matching: the backtracking search of the re module.  Match returns the  *)
(* ways node can match s from position i, in the order the engine tries    *)
(* them; each is the position after the match and the groups captured.     *)
(***************************************************************************)
NoGroup == <<>>

SetGroup(caps, n, from, to) ==
    [j \in 1..Len(caps) |-> IF j = n THEN <<from, to>> ELSE caps[j]]

RECURSIVE Match(_, _, _, _)
RECURSIVE MatchThen(_, _, _)
RECURSIVE MatchMore(_, _, _, _)
RECURSIVE CloseGroup(_, _, _)

\* continue every result of the left part with node b
MatchThen(rs, b, s) ==
    IF rs = <<>> THEN <<>>
    ELSE Match(b, s, Head(rs).i, Head(rs).caps) \o MatchThen(Tail(rs), b, s)

\* after one iteration of a repeat: iterate again unless the iteration was
\* empty or the repeat is "?"
MatchMore(rs, node, s, from) ==
    IF rs = <<>> THEN <<>>
    ELSE (IF node.inf /\ Head(rs).i > from
          THEN Match(Rep(node.a, 0, TRUE, node.mode), s, Head(rs).i, Head(rs).caps)
          ELSE <<Head(rs)>>)
         \o MatchMore(Tail(rs), node, s, from)

CloseGroup(rs, n, from) ==
    IF rs = <<>> THEN <<>>
    ELSE <<[i |-> Head(rs).i, caps |-> SetGroup(Head(rs).caps, n, from, Head(rs).i)]>>
         \o CloseGroup(Tail(rs), n, from)

Match(node, s, i, caps) ==
    CASE node.k = "empty" -> <<[i |-> i, caps |-> caps]>>
      [] node.k = "lit" ->
            IF /\ i <= Len(s)
               /\ IF node.ic THEN Lower(s[i]) = Lower(node.c) ELSE s[i] = node.c
            THEN <<[i |-> i + 1, caps |-> caps]>> ELSE <<>>
      [] node.k = "digit" ->
            IF i <= Len(s) /\ s[i] \in Digits
            THEN <<[i |-> i + 1, caps |-> caps]>> ELSE <<>>
      [] node.k = "space" ->
            IF i <= Len(s) /\ s[i] \in Whitespace
            THEN <<[i |-> i + 1, caps |-> caps]>> ELSE <<>>
      [] node.k = "cat" -> MatchThen(Match(node.a, s, i, caps), node.b, s)
      [] node.k = "alt" -> Match(node.a, s, i, caps) \o Match(node.b, s, i, caps)
      [] node.k = "grp" -> CloseGroup(Match(node.a, s, i, caps), node.n, i)
      [] node.k = "ncg" -> Match(node.a, s, i, caps)
      [] node.k = "rep" ->
            LET iter == MatchMore(Match(node.a, s, i, caps), node, s, i)
                skip == IF node.min = 0 THEN <<[i |-> i, caps |-> caps]>> ELSE <<>>
                greedy == iter \o skip
            IN  CASE node.mode = "lazy" -> skip \o iter
                  [] node.mode = "possessive" ->
                        IF greedy = <<>> THEN <<>> ELSE <<Head(greedy)>>
                  [] OTHER -> greedy

NoMatch == [found |-> FALSE, from |-> 0, to |-> 0, caps |-> <<>>]

\* re.search on a compiled pattern: the first match at the leftmost position
RECURSIVE SearchFrom(_, _, _)
SearchFrom(re, s, start) ==
    IF start > Len(s) + 1 THEN NoMatch
    ELSE LET rs == Match(re.node, s, start, [j \in 1..re.ng |-> NoGroup])
         IN  IF rs # <<>>
             THEN [found |-> TRUE, from |-> start, to |-> Head(rs).i,
                   caps |-> Head(rs).caps]
             ELSE SearchFrom(re, s, start + 1)

\* re.fullmatch on a compiled pattern
FullMatch(re, s) ==
    LET rs == Match(re.node, s, 1, [j \in 1..re.ng |-> NoGroup])
    IN  \E j \in 1..Len(rs) : rs[j].i = Len(s) + 1

\* match.groups()[n-1] as a string; None is a group that did not take part
IsNone(m, n) == m.caps[n] = NoGroup
GroupText(m, s, n) == SubSeq(s, m.caps[n][1], m.caps[n][2] - 1)

(***************************************************************************)
(* utilities.py: naming, LOD and collision helpers.  A call either returns *)
(* a value or lets an exception escape.                                    *)
(***************************************************************************)
Returned(v) == [raised |-> "none", value |-> v]
Raised(e) == [raised |-> e, value |-> <<>>]

\* RegexPresets.INVALID_NAME_CHARACTERS: anything but letters, digits, "_",
\* "-" and "+"
IsValidNameChar(c) == IsAsciiLetter(c) \/ c \in Digits \/ c \in {"_", "-", "+"}

\* re.sub(RegexPresets.INVALID_NAME_CHARACTERS, "_", s): every maximal run of
\* invalid characters becomes one underscore
RECURSIVE SubInvalid(_)
SubInvalid(s) ==
    IF s = <<>> THEN <<>>
    ELSE IF IsValidNameChar(Head(s)) THEN <<Head(s)>> \o SubInvalid(Tail(s))
    ELSE IF Len(s) > 1 /\ ~IsValidNameChar(s[2]) THEN SubInvalid(Tail(s))
    ELSE <<"_">> \o SubInvalid(Tail(s))

\* the length of the prefix the pattern ^\(\?[a-zA-Z]*\) matches, 0 if none
RECURSIVE LettersEnd(_, _)
LettersEnd(p, i) ==
    IF i <= Len(p) /\ IsAsciiLetter(p[i]) THEN LettersEnd(p, i + 1) ELSE i

FlagTokenLen(p) ==
    IF Len(p) >= 2 /\ p[1] = "(" /\ p[2] = "?"
    THEN LET e == LettersEnd(p, 3)
         IN  IF e <= Len(p) /\ p[e] = ")" THEN e ELSE 0
    ELSE 0

\* the flag extraction taking re.IGNORECASE from any leading token "(?i...)"
_extract_regex_flags_any_i_token(pattern) ==
    LET ic == StartsWith(pattern, <<"(", "?", "i">>) /\ FlagTokenLen(pattern) > 0
        p1 == IF StartsWith(pattern, <<"(", "?", "i", ")">>)
              THEN SubSeq(pattern, 5, Len(pattern)) ELSE pattern
        p2 == SubSeq(p1, FlagTokenLen(p1) + 1, Len(p1))
    IN  [pattern |-> p2, ic |-> ic]

_extract_regex_flags(pattern) ==
    LET ic == StartsWith(pattern, <<"(", "?", "i", ")">>)
        p1 == IF ic THEN SubSeq(pattern, 5, Len(pattern)) ELSE pattern
        p2 == SubSeq(p1, FlagTokenLen(p1) + 1, Len(p1))
    IN  [pattern |-> p2, ic |-> ic]

\* re.search(f"({lod_regex})", asset_name, flags) as the callers build it
WrappedPattern(x) == Compile(<<"(">> \o x.pattern \o <<")">>, x.ic)

SearchCompiled(re, asset_name) ==
    IF re.err THEN [err |-> TRUE, m |-> NoMatch, ng |-> 0]
    ELSE [err |-> FALSE, m |-> SearchFrom(re, asset_name, 1), ng |-> re.ng]

LodSearch(asset_name, lod_regex_raw) ==
    SearchCompiled(WrappedPattern(_extract_regex_flags(lod_regex_raw)), asset_name)

\* asset_name.replace(lod, f'{lod[:-1]}0')
ReplaceLod(asset_name, lod) ==
    Replace(asset_name, lod, (IF lod = <<>> THEN <<>> ELSE Front(lod)) \o <<"0">>)

\* the body of get_lod0_name after the search: result is what re.search gave
Lod0OfResult(asset_name, result) ==
    IF result.err \/ ~result.m.found THEN Returned(asset_name)
    ELSE IF result.ng = 0 THEN Returned(asset_name)
    ELSE IF IsNone(result.m, result.ng) THEN Raised("TypeError")
    ELSE Returned(ReplaceLod(asset_name, GroupText(result.m, asset_name, result.ng)))

get_lod0_name(asset_name, properties) ==
    Lod0OfResult(asset_name, LodSearch(asset_name, properties.lod_regex))

\* int(lod[-1])
IntOfLast(lod) ==
    IF lod = <<>> \/ DigitValue(Last(lod)) < 0 THEN Returned(0)
    ELSE Returned(DigitValue(Last(lod)))

\* the body of get_lod_index after the search
LodIndexOfResult(asset_name, result) ==
    IF result.err \/ ~result.m.found THEN Returned(0)
    ELSE IF result.ng = 0 THEN Returned(0)
    ELSE IF IsNone(result.m, result.ng) THEN Raised("TypeError")
    ELSE IntOfLast(GroupText(result.m, asset_name, result.ng))

get_lod_index(asset_name, properties) ==
    LodIndexOfResult(asset_name, LodSearch(asset_name, properties.lod_regex))

\* the import_lods branch of get_asset_name after the search
AssetNameOfResult(name, result, lod) ==
    IF result.err \/ ~result.m.found \/ lod THEN Returned(name)
    ELSE IF result.ng = 0 THEN Raised("IndexError")
    ELSE IF IsNone(result.m, 1) THEN Raised("TypeError")
    ELSE Returned(Replace(name, GroupText(result.m, name, 1), <<>>))

\* get_asset_name on the name with the invalid characters already replaced
AssetNameOfNormalized(name, properties, lod) ==
    IF ~properties.import_lods THEN Returned(name)
    ELSE AssetNameOfResult(name, LodSearch(name, properties.lod_regex), lod)

\* get_asset_name without the "if properties.import_lods" test
get_asset_name_always_lods(asset_name, properties, lod) ==
    AssetNameOfResult(SubInvalid(Strip(asset_name)),
                      LodSearch(SubInvalid(Strip(asset_name)), properties.lod_regex), lod)

get_asset_name(asset_name, properties, lod) ==
    AssetNameOfNormalized(SubInvalid(Strip(asset_name)), properties, lod)

CollisionPrefix == <<"U", "(", "B", "X", "|", "C", "P", "|", "S", "P", "|", "C", "X", ")", "_">>
CollisionSuffix == <<"(", "_", "\\", "d", "+", ")", "?">>

\* basic_pattern, compiled
BasicPattern(asset_name) ==
    Compile(CollisionPrefix \o ReEscape(asset_name) \o CollisionSuffix, FALSE)

\* lod_pattern, compiled with the extracted flags
LodPattern(asset_name, x) ==
    Compile(CollisionPrefix \o ReEscape(asset_name) \o x.pattern \o CollisionSuffix, x.ic)

\* bool(re.fullmatch(lod_pattern, ...)), and on re.error the basic pattern again
LodFormMatch(lod_pattern, basic_matches, mesh_object_name) ==
    IF lod_pattern.err THEN Returned(basic_matches)
    ELSE Returned(FullMatch(lod_pattern, mesh_object_name))

\* the two forms tried on the name: basic_matches is the basic fullmatch
CollisionMatch(basic_matches, asset_name, mesh_object_name, properties) ==
    IF basic_matches THEN Returned(TRUE)
    ELSE LodFormMatch(LodPattern(asset_name, _extract_regex_flags(properties.lod_regex)),
                      basic_matches, mesh_object_name)

\* is_collision_of once mesh_object_name is stripped
CollisionOfStripped(asset_name, mesh_object_name, properties) ==
    CollisionMatch(FullMatch(BasicPattern(asset_name), mesh_object_name),
                   asset_name, mesh_object_name, properties)

\* the match on the name as given, without mesh_object_name.strip()
is_collision_of_no_strip(asset_name, mesh_object_name, properties) ==
    CollisionOfStripped(asset_name, mesh_object_name, properties)

is_collision_of(asset_name, mesh_object_name, properties) ==
    CollisionOfStripped(asset_name, Strip(mesh_object_name), properties)

(***************************************************************************)
(* State                                                                   *)
(***************************************************************************)
VARIABLES
    properties,   \* the send2ue property group (bpy.context.scene.send2ue)
    scene,        \* the Blender scene and the external engine, as the checks read them
    env_dev,      \* the environment variable SEND2UE_DEV
    wm,           \* bpy.context.window_manager.send2ue error state and popups
    pc,           \* position of ValidationManager.run()
    idx,          \* index of the next entry of the validations list
    invoked,      \* the checks invoked so far, with what each did
    run_result,   \* how run() ended
    manager,      \* the object sets ValidationManager.__init__ captured
    engine_calls, \* calls made to the external engine (RPC), in order
    call,         \* the last call of a naming utility, with its result
    view_layer,   \* objects of the scene: selection, active object, frame, visibility
    timers,       \* bpy.app.timers and the add-on registration setup_project reads
    execution_queue  \* bpy.app.driver_namespace[ToolInfo.EXECUTION_QUEUE.value]

\* the host state that the validation and naming code never touch
host == <<view_layer, timers, execution_queue>>

vars == <<properties, scene, env_dev, wm, pc, idx, invoked, run_result, manager,
          engine_calls, call, host>>

(***************************************************************************)
(* Bounds and input domains                                                *)
(***************************************************************************)
MaxNameLen == 4
MaxStemLen == 1

RECURSIVE SeqsUpTo(_, _)
SeqsUpTo(S, n) ==
    IF n = 0 THEN {<<>>}
    ELSE LET shorter == SeqsUpTo(S, n - 1)
         IN  shorter \cup {Append(q, c) : q \in {x \in shorter : Len(x) = n - 1}, c \in S}

\* object names handed to the LOD utilities
NameChars == {"L", "l", "1", " "}
Names == SeqsUpTo(NameChars, MaxNameLen)

\* lod_regex settings: well-formed and malformed patterns, inline flags, own
\* capture groups, patterns that match the empty string
RxPlain == <<"L", "\\", "d">>
RxIgnoreCase == <<"(", "?", "i", ")", "L", "\\", "d">>
RxDefaultForm == <<"(", "?", "i", ")", "(", "L", "\\", "d", ")">>
RxFlagsIM == <<"(", "?", "i", "m", ")", "L", "\\", "d">>
RxFlagM == <<"(", "?", "m", ")", "L", "\\", "d">>
RxTwoTokens == <<"(", "?", "i", ")", "(", "?", "m", ")", "L", "\\", "d">>
RxThreeTokens == <<"(", "?", "i", ")", "(", "?", "m", ")", "(", "?", "s", ")", "L", "\\", "d">>
RxScopedFlag == <<"(", "?", "i", ":", "L", ")", "\\", "d">>
RxInnerGroup == <<"(", "L", ")", "\\", "d">>
RxGroupThenLetter == <<"L", "(", "\\", "d", ")", "l">>
RxOptionalGroup == <<"(", "l", ")", "|", "L", "\\", "d">>
RxStar == <<"L", "*">>
RxUnclosed == <<"(", "L", "\\", "d">>
RxLeadingStar == <<"*", "L">>
RxCloseOpen == <<")", "(">>
RxOnlyFlag == <<"(", "?", "i", ")">>
RxEmpty == <<>>
RxBackslash == <<"\\">>
RxOpenFlag == <<"(", "?", "i">>
RxNoGroup == <<"?", ":", "L">>
RxEscapesWrapper == <<"l", ")", "?", "(">>

LodRegexes ==
    {RxPlain, RxIgnoreCase, RxDefaultForm, RxFlagsIM,
     RxFlagM, RxTwoTokens, RxThreeTokens, RxScopedFlag,
     RxInnerGroup, RxGroupThenLetter, RxOptionalGroup, RxStar,
     RxUnclosed, RxLeadingStar, RxCloseOpen, RxOnlyFlag,
     RxEmpty, RxBackslash, RxOpenFlag, RxNoGroup,
     RxEscapesWrapper}

DefaultProperties ==
    [validate_scene_scale |-> TRUE, validate_time_units |-> "30",
     validate_armature_transforms |-> TRUE, import_meshes |-> TRUE,
     import_lods |-> FALSE, import_grooms |-> FALSE,
     validate_project_settings |-> TRUE, path_mode |-> "send_to_project",
     validate_paths |-> TRUE, validate_materials |-> TRUE,
     lod_regex |-> RxDefaultForm, validate_textures |-> TRUE,
     validate_object_names |-> TRUE, validate_meshes_for_vertex_groups |-> TRUE]

\* args holds the further arguments of a call and the error state it found
NoCall ==
    [fn |-> "none", name |-> <<>>, mesh |-> <<>>, lod |-> FALSE, args |-> <<>>,
     out |-> Returned(<<>>)]

(***************************************************************************)
(* The LOD naming utilities, called on every name                          *)
(***************************************************************************)
ExtractRegexFlags ==
    /\ call.fn = "none"
    /\ call' = [NoCall EXCEPT !.fn = "_extract_regex_flags",
                              !.out = Returned(_extract_regex_flags(properties.lod_regex))]
    /\ UNCHANGED <<host, properties, scene, env_dev, wm, pc, idx, invoked, run_result,
                   manager, engine_calls>>

GetLod0Name ==
    /\ call.fn = "none"
    /\ \E n \in Names :
          call' = [NoCall EXCEPT !.fn = "get_lod0_name", !.name = n,
                                 !.out = get_lod0_name(n, properties)]
    /\ UNCHANGED <<host, properties, scene, env_dev, wm, pc, idx, invoked, run_result,
                   manager, engine_calls>>

GetLodIndex ==
    /\ call.fn = "none"
    /\ \E n \in Names :
          call' = [NoCall EXCEPT !.fn = "get_lod_index", !.name = n,
                                 !.out = get_lod_index(n, properties)]
    /\ UNCHANGED <<host, properties, scene, env_dev, wm, pc, idx, invoked, run_result,
                   manager, engine_calls>>

GetAssetName ==
    /\ call.fn = "none"
    /\ \E n \in Names, lod \in BOOLEAN :
          call' = [NoCall EXCEPT !.fn = "get_asset_name", !.name = n, !.lod = lod,
                                 !.out = get_asset_name(n, properties, lod)]
    /\ UNCHANGED <<host, properties, scene, env_dev, wm, pc, idx, invoked, run_result,
                   manager, engine_calls>>

(***************************************************************************)
(* The scene the validations read                                          *)
(***************************************************************************)
PreFixToken == {<<"U", "B", "X">>, <<"U", "C", "P">>, <<"U", "S", "P">>, <<"U", "C", "X">>}

\* lengths are in units of 0.0001, so 10000 is 1.0 and the tolerance 0.001 is 10
One == 10000
Tolerance == 10

IdentityMatrix == [rotation_identity |-> TRUE, scale |-> <<One, One, One>>,
                   location |-> <<0, 0, 0>>]

BaseMesh ==
    [name |-> <<"L", "1">>, type |-> "MESH", visible |-> TRUE,
     material_slots |-> <<"MatA">>, polygons |-> <<0>>,
     images |-> <<[packed_file |-> FALSE, filepath |-> TRUE]>>,
     modifiers |-> <<[type |-> "ARMATURE", use_vertex_groups |-> TRUE]>>,
     vertex_groups |-> 1, matrix_local |-> IdentityMatrix]

BaseRig ==
    [name |-> <<"R">>, type |-> "ARMATURE", visible |-> TRUE,
     material_slots |-> <<>>, polygons |-> <<>>, images |-> <<>>,
     modifiers |-> <<>>, vertex_groups |-> 0, matrix_local |-> IdentityMatrix]

BaseCurves == [BaseRig EXCEPT !.name = <<"C">>, !.type = "CURVES"]

BaseScene ==
    [scale_length |-> One, fps |-> 30,
     export_collection |-> {BaseMesh, BaseRig},
     unreal_running |-> TRUE, project_settings |-> "ok",
     source_application |-> "ue5",
     disk_path_error |-> FALSE, unreal_folder_error |-> FALSE,
     unreal_asset_path_error |-> FALSE]

\* sorted(collection_objects, key=lambda obj: obj.name)
RECURSIVE SortByName(_)
SortByName(objs) ==
    IF objs = {} THEN <<>>
    ELSE LET first == CHOOSE o \in objs : \A q \in objs : ~StrLess(q.name, o.name)
         IN  <<first>> \o SortByName(objs \ {first})

HasPreFixToken(name) ==
    \E token \in PreFixToken : StartsWith(name, token \o <<"_">>)

get_from_collection(sc, object_type) ==
    SortByName({o \in sc.export_collection :
                    /\ o.type = object_type
                    /\ o.visible
                    /\ ~HasPreFixToken(o.name)})

get_hair_objects(sc, props) ==
    IF props.import_grooms THEN get_from_collection(sc, "CURVES") ELSE <<>>

\* ValidationManager.__init__
NewValidationManager(sc, props) ==
    [mesh_objects |-> get_from_collection(sc, "MESH"),
     rig_objects |-> get_from_collection(sc, "ARMATURE"),
     hair_objects |-> get_hair_objects(sc, props)]

(***************************************************************************)
(* report_error                                                            *)
(***************************************************************************)
NoError == [error_message |-> "", error_message_details |-> "", popups |-> 0]

WarningMessage == "{'WARNING'}"

\* bool(os.environ.get('SEND2UE_DEV', raise_exception)): an unset variable gives
\* the default, a set one its string, which is false only when empty
EnvGetTruthy(env, default) ==
    CASE env = "unset" -> default
      [] env = "" -> FALSE
      [] OTHER -> TRUE

report_error(message, details, raise_exception, env, w) ==
    IF message = WarningMessage THEN [raised |-> FALSE, wm |-> w]
    ELSE IF EnvGetTruthy(env, raise_exception) THEN [raised |-> TRUE, wm |-> w]
    ELSE [raised |-> FALSE,
          wm |-> [error_message |-> message, error_message_details |-> details,
                  popups |-> w.popups + 1]]

(***************************************************************************)
(* validations.py: the checks.  Each yields "True", "False" or the         *)
(* exception that leaves it, with the error state and the engine calls.    *)
(***************************************************************************)
Pass(w, calls) == [out |-> "True", wm |-> w, calls |-> calls]

\* utilities.report_error(message, details) followed by "return False"
Fail(message, details, env, w, calls) ==
    LET r == report_error(message, details, TRUE, env, w)
    IN  IF r.raised THEN [out |-> "RuntimeError", wm |-> w, calls |-> calls]
        ELSE [out |-> "False", wm |-> r.wm, calls |-> calls]

ProjectPathModes == {"send_to_project", "send_to_disk_then_project"}
DiskPathModes == {"send_to_disk", "send_to_disk_then_project"}

validate_scene_scale(mgr, props, sc, env, w, calls) ==
    IF props.validate_scene_scale /\ sc.scale_length # One
    THEN Fail("Scene scale is not 1! Please set it to 1.", "", env, w, calls)
    ELSE Pass(w, calls)

\* float(fps) != float(validate_time_units)
TimeUnitsFps(units) == CASE units = "24" -> 24 [] units = "30" -> 30 [] units = "60" -> 60

validate_frame_rate(mgr, props, sc, env, w, calls) ==
    IF props.validate_time_units # "off" /\ sc.fps # TimeUnitsFps(props.validate_time_units)
    THEN Fail("Current scene FPS does not match", "", env, w, calls)
    ELSE Pass(w, calls)

Abs(x) == IF x < 0 THEN -x ELSE x

HasUnappliedTransforms(m) ==
    \/ ~m.rotation_identity
    \/ \E j \in 1..3 : Abs(m.scale[j] - One) > Tolerance
    \/ \E j \in 1..3 : Abs(m.location[j]) > Tolerance

validate_armature_transforms(mgr, props, sc, env, w, calls) ==
    IF /\ props.validate_armature_transforms
       /\ \E j \in 1..Len(mgr.rig_objects) :
             HasUnappliedTransforms(mgr.rig_objects[j].matrix_local)
    THEN Fail("Armature has un-applied transforms.", "", env, w, calls)
    ELSE Pass(w, calls)

\* validate_export_objects_exist letting an empty export through
validate_export_objects_exist_always_passes(mgr, props, sc, env, w, calls) ==
    Pass(w, calls)

validate_export_objects_exist(mgr, props, sc, env, w, calls) ==
    IF mgr.mesh_objects # <<>> \/ mgr.rig_objects # <<>> \/ mgr.hair_objects # <<>>
    THEN Pass(w, calls)
    ELSE Fail("No objects found in the export collection!", "", env, w, calls)

validate_lod_groups(mgr, props, sc, env, w, calls) ==
    IF props.import_lods /\ props.import_grooms
    THEN Fail("Groom LODs are currently unsupported at this time.", "", env, w, calls)
    ELSE Pass(w, calls)

\* is_unreal_connected reporting with the default raise_exception=True
is_unreal_connected_default_raise(props, sc, env, w, calls) ==
    IF props.path_mode = "send_to_disk" THEN Pass(w, calls)
    ELSE IF sc.unreal_running
    THEN Pass(w, Append(calls, "bootstrap_unreal_with_rpc_server"))
    ELSE Fail("Could not find an open Unreal Editor instance!", "", env, w,
              Append(calls, "bootstrap_unreal_with_rpc_server"))

\* is_unreal_connected bootstrapping the RPC server in every path mode
is_unreal_connected_always_bootstraps(props, sc, env, w, calls) ==
    IF sc.unreal_running
    THEN Pass(w, Append(calls, "bootstrap_unreal_with_rpc_server"))
    ELSE IF EnvGetTruthy(env, FALSE)
    THEN [out |-> "RuntimeError", wm |-> w,
          calls |-> Append(calls, "bootstrap_unreal_with_rpc_server")]
    ELSE [out |-> "False",
          wm |-> report_error("Could not find an open Unreal Editor instance!",
                              "", FALSE, env, w).wm,
          calls |-> Append(calls, "bootstrap_unreal_with_rpc_server")]

\* utilities.is_unreal_connected
is_unreal_connected(props, sc, env, w, calls) ==
    IF props.path_mode = "send_to_disk" THEN Pass(w, calls)
    ELSE LET made == Append(calls, "bootstrap_unreal_with_rpc_server")
         IN  IF sc.unreal_running THEN Pass(w, made)
             ELSE LET r == report_error("Could not find an open Unreal Editor instance!",
                                        "", FALSE, env, w)
                  IN  IF r.raised THEN [out |-> "RuntimeError", wm |-> w, calls |-> made]
                      ELSE [out |-> "False", wm |-> r.wm, calls |-> made]

validate_project_settings(mgr, props, sc, env, w, calls) ==
    IF ~(props.validate_project_settings /\ props.path_mode \in ProjectPathModes)
    THEN Pass(w, calls)
    ELSE LET c == is_unreal_connected(props, sc, env, w, calls)
             asked == Append(c.calls, "get_project_settings")
         IN  IF c.out # "True" THEN c
             ELSE IF sc.project_settings \in {"raises", "empty"}
             THEN Fail("Could not get the project settings from the open unreal project",
                       "", env, c.wm, asked)
             ELSE IF sc.source_application = "ue5" /\ sc.project_settings = "startup_map"
             THEN Fail("Project setting Editor Startup Map must be set to None", "",
                       env, c.wm, asked)
             ELSE IF sc.source_application = "ue5" /\ sc.project_settings = "default_map"
             THEN Fail("Project setting Game Default Map must be set to None", "",
                       env, c.wm, asked)
             ELSE Pass(c.wm, asked)

validate_disk_folders(mgr, props, sc, env, w, calls) ==
    IF props.validate_paths /\ props.path_mode \in DiskPathModes /\ sc.disk_path_error
    THEN Fail("disk folder path error", "", env, w, calls)
    ELSE Pass(w, calls)

validate_unreal_folders(mgr, props, sc, env, w, calls) ==
    IF props.validate_paths /\ props.path_mode \in ProjectPathModes /\ sc.unreal_folder_error
    THEN Fail("unreal folder path error", "", env, w, calls)
    ELSE Pass(w, calls)

validate_unreal_asset_paths(mgr, props, sc, env, w, calls) ==
    IF /\ props.validate_paths
       /\ props.path_mode \in ProjectPathModes
       /\ sc.unreal_asset_path_error
    THEN Fail("unreal asset path error", "", env, w, calls)
    ELSE Pass(w, calls)

\* list.remove(x): drops the first occurrence
RECURSIVE RemoveFirst(_, _)
RemoveFirst(lst, x) ==
    IF lst = <<>> THEN <<>>
    ELSE IF Head(lst) = x THEN Tail(lst)
    ELSE <<Head(lst)>> \o RemoveFirst(Tail(lst), x)

InSeq(x, lst) == \E j \in 1..Len(lst) : lst[j] = x

\* the polygon loop of validate_materials on one mesh, from polygon j on, with
\* the slot names not yet seen used: "index", "unused" or "ok"
RECURSIVE PolygonLoop(_, _, _)
PolygonLoop(mesh, j, unused) ==
    IF j > Len(mesh.polygons) THEN (IF unused # <<>> THEN "unused" ELSE "ok")
    ELSE IF mesh.polygons[j] >= Len(mesh.material_slots) THEN "index"
    ELSE LET material == mesh.material_slots[mesh.polygons[j] + 1]
         IN  PolygonLoop(mesh, j + 1,
                         IF InSeq(material, unused) THEN RemoveFirst(unused, material)
                         ELSE unused)

MeshMaterials(mesh) ==
    IF Len(mesh.material_slots) > 0 THEN PolygonLoop(mesh, 1, mesh.material_slots)
    ELSE "ok"

RECURSIVE MaterialsLoop(_, _)
MaterialsLoop(meshes, j) ==
    IF j > Len(meshes) THEN "ok"
    ELSE IF MeshMaterials(meshes[j]) # "ok" THEN MeshMaterials(meshes[j])
    ELSE MaterialsLoop(meshes, j + 1)

validate_materials(mgr, props, sc, env, w, calls) ==
    IF ~props.validate_materials THEN Pass(w, calls)
    ELSE LET found == MaterialsLoop(mgr.mesh_objects, 1)
         IN  CASE found = "index" ->
                    Fail("Material index out of bounds!", "references invalid material index",
                         env, w, calls)
               [] found = "unused" -> Fail("Mesh has a unused material", "", env, w, calls)
               [] OTHER -> Pass(w, calls)

\* the mesh loop of validate_lod_names: it ends at the first mesh that fails
RECURSIVE LodNamesLoop(_, _, _)
\* one pass of the loop body, result being what re.search gave for mesh j
LodNamesBody(result, meshes, j, lod_regex) ==
    IF result.err THEN "re.error"
    ELSE IF ~result.m.found THEN "no match"
    ELSE LodNamesLoop(meshes, j + 1, lod_regex)

LodNamesLoop(meshes, j, lod_regex) ==
    IF j > Len(meshes) THEN "ok"
    ELSE LodNamesBody(LodSearch(meshes[j].name, lod_regex), meshes, j, lod_regex)

\* what validate_lod_names reports for the outcome of its loop
LodNamesReport(found, env, w, calls) ==
    CASE found = "re.error" ->
           Fail("Invalid lod_regex pattern. Please check your regex syntax.", "",
                env, w, calls)
      [] found = "no match" ->
           Fail("Object does not follow the correct lod naming convention", "",
                env, w, calls)
      [] OTHER -> Pass(w, calls)

validate_lod_names(mgr, props, sc, env, w, calls) ==
    IF ~props.import_lods THEN Pass(w, calls)
    ELSE LodNamesReport(LodNamesLoop(mgr.mesh_objects, 1, props.lod_regex), env, w, calls)

\* images are the images of the texture nodes of the material in the first
\* slot of a mesh; without a slot the loop never reaches them
validate_texture_references(mgr, props, sc, env, w, calls) ==
    IF /\ props.validate_textures
       /\ \E j \in 1..Len(mgr.mesh_objects) :
             \E n \in 1..Len(mgr.mesh_objects[j].images) :
                /\ mgr.mesh_objects[j].material_slots # <<>>
                /\ ~mgr.mesh_objects[j].images[n].packed_file
                /\ ~mgr.mesh_objects[j].images[n].filepath
    THEN Fail("Texture node does not have a valid file path.", "", env, w, calls)
    ELSE Pass(w, calls)

NoneName == <<"n", "o", "n", "e">>

HasInvalidChar(name) == \E j \in 1..Len(name) : ~IsValidNameChar(name[j])

validate_object_names(mgr, props, sc, env, w, calls) ==
    IF ~props.validate_object_names THEN Pass(w, calls)
    ELSE LET export_objects ==
                 (IF props.import_grooms THEN mgr.hair_objects ELSE <<>>)
                 \o (IF props.import_meshes THEN mgr.mesh_objects \o mgr.rig_objects
                     ELSE <<>>)
         IN  IF \E j \in 1..Len(export_objects) : LowerStr(export_objects[j].name) = NoneName
             THEN Fail("Object has an invalid name. Please rename it.", "", env, w, calls)
             ELSE IF \E j \in 1..Len(export_objects) : HasInvalidChar(export_objects[j].name)
             THEN Fail("The following blender object(s) contain special characters", "",
                       env, w, calls)
             ELSE Pass(w, calls)

MissingVertexGroups(mesh) ==
    \E j \in 1..Len(mesh.modifiers) :
       /\ mesh.modifiers[j].type = "ARMATURE"
       /\ mesh.modifiers[j].use_vertex_groups
       /\ mesh.vertex_groups = 0

validate_meshes_for_vertex_groups(mgr, props, sc, env, w, calls) ==
    IF /\ props.validate_meshes_for_vertex_groups
       /\ \E j \in 1..Len(mgr.mesh_objects) : MissingVertexGroups(mgr.mesh_objects[j])
    THEN Fail("The following blender object(s) have an armature modifier", "", env, w, calls)
    ELSE Pass(w, calls)

\* the list run_pre_validations walks
validations ==
    <<"validate_scene_scale", "validate_frame_rate", "validate_armature_transforms",
      "validate_export_objects_exist", "validate_lod_groups", "validate_project_settings",
      "validate_disk_folders", "validate_unreal_folders", "validate_unreal_asset_paths",
      "validate_materials", "validate_lod_names", "validate_texture_references",
      "validate_object_names", "validate_meshes_for_vertex_groups">>

Validation(check, mgr, props, sc, env, w, calls) ==
    CASE check = "validate_scene_scale" -> validate_scene_scale(mgr, props, sc, env, w, calls)
      [] check = "validate_frame_rate" -> validate_frame_rate(mgr, props, sc, env, w, calls)
      [] check = "validate_armature_transforms" ->
            validate_armature_transforms(mgr, props, sc, env, w, calls)
      [] check = "validate_export_objects_exist" ->
            validate_export_objects_exist(mgr, props, sc, env, w, calls)
      [] check = "validate_lod_groups" -> validate_lod_groups(mgr, props, sc, env, w, calls)
      [] check = "validate_project_settings" ->
            validate_project_settings(mgr, props, sc, env, w, calls)
      [] check = "validate_disk_folders" -> validate_disk_folders(mgr, props, sc, env, w, calls)
      [] check = "validate_unreal_folders" ->
            validate_unreal_folders(mgr, props, sc, env, w, calls)
      [] check = "validate_unreal_asset_paths" ->
            validate_unreal_asset_paths(mgr, props, sc, env, w, calls)
      [] check = "validate_materials" -> validate_materials(mgr, props, sc, env, w, calls)
      [] check = "validate_lod_names" -> validate_lod_names(mgr, props, sc, env, w, calls)
      [] check = "validate_texture_references" ->
            validate_texture_references(mgr, props, sc, env, w, calls)
      [] check = "validate_object_names" -> validate_object_names(mgr, props, sc, env, w, calls)
      [] check = "validate_meshes_for_vertex_groups" ->
            validate_meshes_for_vertex_groups(mgr, props, sc, env, w, calls)

(***************************************************************************)
(* ValidationManager: construction and run()                               *)
(***************************************************************************)
NoManager == [mesh_objects |-> <<>>, rig_objects |-> <<>>, hair_objects |-> <<>>]

\* ValidationManager(properties)
Construct ==
    /\ pc = "idle"
    /\ manager' = NewValidationManager(scene, properties)
    /\ pc' = "constructed"
    /\ UNCHANGED <<host, properties, scene, env_dev, wm, idx, invoked, run_result,
                   engine_calls, call>>

\* run() enters run_pre_validations and builds the list
Run ==
    /\ pc = "constructed"
    /\ pc' = "validating"
    /\ idx' = 1
    /\ UNCHANGED <<host, properties, scene, env_dev, wm, invoked, run_result, manager,
                   engine_calls, call>>

\* the loop body without its early return
StepOutcomeNoReturn(check, r) ==
    /\ invoked' = Append(invoked, [check |-> check, out |-> r.out])
    /\ wm' = r.wm
    /\ engine_calls' = r.calls
    /\ idx' = idx + 1
    /\ UNCHANGED <<pc, run_result>>

\* "if not validation(): return False": r is what the check gave
StepOutcome(check, r) ==
    /\ invoked' = Append(invoked, [check |-> check, out |-> r.out])
    /\ wm' = r.wm
    /\ engine_calls' = r.calls
    /\ IF r.out = "True"
       THEN /\ idx' = idx + 1
            /\ UNCHANGED <<pc, run_result>>
       ELSE /\ pc' = "done"
            /\ run_result' = r.out
            /\ UNCHANGED idx

\* the loop without its early return
ValidationStepNoReturn ==
    /\ pc = "validating"
    /\ idx <= Len(validations)
    /\ StepOutcomeNoReturn(validations[idx],
                           Validation(validations[idx], manager, properties, scene,
                                      env_dev, wm, engine_calls))
    /\ UNCHANGED <<host, properties, scene, env_dev, manager, call>>

\* one iteration of "for validation in validations"
ValidationStep ==
    /\ pc = "validating"
    /\ idx <= Len(validations)
    /\ StepOutcome(validations[idx],
                   Validation(validations[idx], manager, properties, scene, env_dev, wm,
                              engine_calls))
    /\ UNCHANGED <<host, properties, scene, env_dev, manager, call>>

\* the list is exhausted: return True
ReturnTrue ==
    /\ pc = "validating"
    /\ idx > Len(validations)
    /\ pc' = "done"
    /\ run_result' = "True"
    /\ UNCHANGED <<host, properties, scene, env_dev, wm, idx, invoked, manager,
                   engine_calls, call>>

(***************************************************************************)
(* Collision matching, called on asset names and candidate mesh names      *)
(***************************************************************************)
RxAlternation == <<"1", "|", "U", "B", "X", "_", "l">>

CollisionRegexes ==
    {RxPlain, RxIgnoreCase, RxDefaultForm, RxFlagsIM, RxThreeTokens, RxStar,
     RxUnclosed, RxCloseOpen, RxEmpty, RxAlternation}

\* asset names are what get_asset_name leaves of an object name: stripped and
\* with the invalid characters replaced
AssetChars == {"L", "l", "+"}
AssetNames == {SubInvalid(Strip(n)) : n \in SeqsUpTo(AssetChars \cup {" "}, MaxStemLen)}

\* candidate mesh names: padding, a prefix, a stem, an LOD part, a numeric part
Pads == {<<>>, <<" ">>}
CandidatePrefixes ==
    {<<"U", "B", "X", "_">>, <<"U", "C", "P", "_">>, <<"U", "S", "P", "_">>,
     <<"U", "C", "X", "_">>, <<"u", "b", "x", "_">>, <<"U", "X", "X", "_">>}
LodParts == {<<>>, <<"L", "1">>, <<"l", "1">>, <<"1">>}
NumericParts == {<<>>, <<"_", "1">>, <<"_", "1", "1">>, <<"_">>, <<"_", "L">>}

OtherStems == {<<>>, <<"L">>, <<"l">>}

\* the candidates tried against asset name a: its own stem and other stems
Candidates(a) ==
    {lp \o pre \o stem \o lod \o num \o rp :
        lp \in Pads, pre \in CandidatePrefixes, stem \in {a} \cup OtherStems,
        lod \in LodParts, num \in NumericParts, rp \in Pads}

IsCollisionOf ==
    /\ call.fn = "none"
    /\ \E a \in AssetNames :
          \E c \in Candidates(a) :
             call' = [NoCall EXCEPT !.fn = "is_collision_of", !.name = a, !.mesh = c,
                                    !.out = is_collision_of(a, c, properties)]
    /\ UNCHANGED <<host, properties, scene, env_dev, wm, pc, idx, invoked, run_result,
                   manager, engine_calls>>

(***************************************************************************)
(* Configurations and scenes: variations of a scene that passes every      *)
(* check, at most MaxVariations at a time                                  *)
(***************************************************************************)
MaxVariations == 2

BaseWorld ==
    [props |-> DefaultProperties, env |-> "unset", scene |-> BaseScene,
     mesh |-> BaseMesh, rig |-> BaseRig, objects |-> {"mesh", "rig"}]

VariationList ==
    <<"scale_check_off", "time_units_off", "time_units_24", "armature_check_off",
      "import_lods", "import_grooms", "import_meshes_off", "project_settings_check_off",
      "path_mode_disk", "path_mode_disk_then_project", "paths_check_off",
      "materials_check_off", "lod_regex_malformed", "lod_regex_case_sensitive",
      "textures_check_off", "object_names_check_off", "vertex_groups_check_off",
      "env_dev_empty", "env_dev_1", "scale_length_2", "fps_24", "rig_rotated",
      "rig_scaled", "rig_scaled_within_tolerance", "rig_moved", "no_mesh", "no_rig",
      "with_curves", "empty_collection", "mesh_hidden", "mesh_named_without_lod",
      "mesh_named_lowercase_lod", "mesh_named_none", "mesh_named_with_space",
      "mesh_named_as_collision", "unreal_closed", "project_settings_empty",
      "project_settings_raises", "startup_map_set", "default_map_set", "source_ue4",
      "disk_path_error", "unreal_folder_error", "unreal_asset_path_error",
      "unused_material", "duplicate_slot_name", "bad_material_index",
      "polygons_share_slot",
      "no_material_slots", "texture_without_path", "texture_packed", "no_vertex_groups",
      "modifier_without_vertex_groups">>

Vary(w, v) ==
    CASE v = "scale_check_off" ->
            [w EXCEPT !.props.validate_scene_scale = FALSE]
      [] v = "time_units_off" ->
            [w EXCEPT !.props.validate_time_units = "off"]
      [] v = "time_units_24" ->
            [w EXCEPT !.props.validate_time_units = "24"]
      [] v = "armature_check_off" ->
            [w EXCEPT !.props.validate_armature_transforms = FALSE]
      [] v = "import_lods" ->
            [w EXCEPT !.props.import_lods = TRUE]
      [] v = "import_grooms" ->
            [w EXCEPT !.props.import_grooms = TRUE]
      [] v = "import_meshes_off" ->
            [w EXCEPT !.props.import_meshes = FALSE]
      [] v = "project_settings_check_off" ->
            [w EXCEPT !.props.validate_project_settings = FALSE]
      [] v = "path_mode_disk" ->
            [w EXCEPT !.props.path_mode = "send_to_disk"]
      [] v = "path_mode_disk_then_project" ->
            [w EXCEPT !.props.path_mode = "send_to_disk_then_project"]
      [] v = "paths_check_off" ->
            [w EXCEPT !.props.validate_paths = FALSE]
      [] v = "materials_check_off" ->
            [w EXCEPT !.props.validate_materials = FALSE]
      [] v = "lod_regex_malformed" ->
            [w EXCEPT !.props.lod_regex = RxUnclosed]
      [] v = "lod_regex_case_sensitive" ->
            [w EXCEPT !.props.lod_regex = RxPlain]
      [] v = "textures_check_off" ->
            [w EXCEPT !.props.validate_textures = FALSE]
      [] v = "object_names_check_off" ->
            [w EXCEPT !.props.validate_object_names = FALSE]
      [] v = "vertex_groups_check_off" ->
            [w EXCEPT !.props.validate_meshes_for_vertex_groups = FALSE]
      [] v = "env_dev_empty" ->
            [w EXCEPT !.env = ""]
      [] v = "env_dev_1" ->
            [w EXCEPT !.env = "1"]
      [] v = "scale_length_2" ->
            [w EXCEPT !.scene.scale_length = 2 * One]
      [] v = "fps_24" ->
            [w EXCEPT !.scene.fps = 24]
      [] v = "rig_rotated" ->
            [w EXCEPT !.rig.matrix_local.rotation_identity = FALSE]
      [] v = "rig_scaled" ->
            [w EXCEPT !.rig.matrix_local.scale = <<One, One + 2 * Tolerance, One>>]
      [] v = "rig_scaled_within_tolerance" ->
            [w EXCEPT !.rig.matrix_local.scale = <<One, One, One - (Tolerance - 1)>>]
      [] v = "rig_moved" ->
            [w EXCEPT !.rig.matrix_local.location = <<0, 0, -2 * Tolerance>>]
      [] v = "no_mesh" ->
            [w EXCEPT !.objects = @ \ {"mesh"}]
      [] v = "no_rig" ->
            [w EXCEPT !.objects = @ \ {"rig"}]
      [] v = "with_curves" ->
            [w EXCEPT !.objects = @ \cup {"curves"}]
      [] v = "empty_collection" ->
            [w EXCEPT !.objects = {}]
      [] v = "mesh_hidden" ->
            [w EXCEPT !.mesh.visible = FALSE]
      [] v = "mesh_named_without_lod" ->
            [w EXCEPT !.mesh.name = <<"L">>]
      [] v = "mesh_named_lowercase_lod" ->
            [w EXCEPT !.mesh.name = <<"l", "1">>]
      [] v = "mesh_named_none" ->
            [w EXCEPT !.mesh.name = <<"N", "o", "n", "e">>]
      [] v = "mesh_named_with_space" ->
            [w EXCEPT !.mesh.name = <<"L", " ", "L", "1">>]
      [] v = "mesh_named_as_collision" ->
            [w EXCEPT !.mesh.name = <<"U", "B", "X", "_", "L", "1">>]
      [] v = "unreal_closed" ->
            [w EXCEPT !.scene.unreal_running = FALSE]
      [] v = "project_settings_empty" ->
            [w EXCEPT !.scene.project_settings = "empty"]
      [] v = "project_settings_raises" ->
            [w EXCEPT !.scene.project_settings = "raises"]
      [] v = "startup_map_set" ->
            [w EXCEPT !.scene.project_settings = "startup_map"]
      [] v = "default_map_set" ->
            [w EXCEPT !.scene.project_settings = "default_map"]
      [] v = "source_ue4" ->
            [w EXCEPT !.scene.source_application = "ue4"]
      [] v = "disk_path_error" ->
            [w EXCEPT !.scene.disk_path_error = TRUE]
      [] v = "unreal_folder_error" ->
            [w EXCEPT !.scene.unreal_folder_error = TRUE]
      [] v = "unreal_asset_path_error" ->
            [w EXCEPT !.scene.unreal_asset_path_error = TRUE]
      [] v = "unused_material" ->
            [w EXCEPT !.mesh.material_slots = <<"MatA", "MatB">>]
      [] v = "duplicate_slot_name" ->
            [w EXCEPT !.mesh.material_slots = <<"MatA", "MatA">>]
      [] v = "bad_material_index" ->
            [w EXCEPT !.mesh.polygons = <<0, 2>>]
      [] v = "polygons_share_slot" ->
            [w EXCEPT !.mesh.polygons = <<0, 0>>]
      [] v = "no_material_slots" ->
            [w EXCEPT !.mesh.material_slots = <<>>]
      [] v = "texture_without_path" ->
            [w EXCEPT !.mesh.images = <<[packed_file |-> FALSE, filepath |-> FALSE]>>]
      [] v = "texture_packed" ->
            [w EXCEPT !.mesh.images = <<[packed_file |-> TRUE, filepath |-> FALSE]>>]
      [] v = "no_vertex_groups" ->
            [w EXCEPT !.mesh.vertex_groups = 0]
      [] v = "modifier_without_vertex_groups" ->
            [w EXCEPT !.mesh.modifiers = <<[type |-> "ARMATURE", use_vertex_groups |-> FALSE]>>]

RECURSIVE VaryAll(_, _, _)
VaryAll(w, V, j) ==
    IF j > Len(VariationList) THEN w
    ELSE VaryAll(IF VariationList[j] \in V THEN Vary(w, VariationList[j]) ELSE w, V, j + 1)

RECURSIVE SubsetsUpTo(_, _)
SubsetsUpTo(S, n) ==
    IF n = 0 THEN {{}}
    ELSE LET smaller == SubsetsUpTo(S, n - 1)
         IN  smaller \cup {x \cup {e} : x \in smaller, e \in S}

Worlds ==
    {VaryAll(BaseWorld, V, 1) :
        V \in SubsetsUpTo({VariationList[j] : j \in 1..Len(VariationList)}, MaxVariations)}

SceneOf(w) ==
    [w.scene EXCEPT !.export_collection =
        (IF "mesh" \in w.objects THEN {w.mesh} ELSE {})
        \cup (IF "rig" \in w.objects THEN {w.rig} ELSE {})
        \cup (IF "curves" \in w.objects THEN {BaseCurves} ELSE {})]

(***************************************************************************)
(* Specification of the validation pipeline                                *)
(***************************************************************************)
\* no context saved, no timer registered, no job queued
NoContext == [saved |-> FALSE]

\* the add-on registered and enabled, nothing pending, nothing set up yet
NoTimers ==
    [registered |-> 0, properties_available |-> TRUE, addon_enabled |-> TRUE,
     automatically_create_collections |-> TRUE, unpipe_installed |-> FALSE,
     collections |-> FALSE, pipeline_menu |-> FALSE]

HostIdle ==
    /\ view_layer = [selected |-> {}, hidden |-> {}, active |-> "None", frame_current |-> 1,
                     context_data |-> NoContext, since |-> {}]
    /\ timers = NoTimers
    /\ execution_queue = <<>>

ValidationIdle ==
    /\ wm = NoError
    /\ pc = "idle"
    /\ idx = 0
    /\ invoked = <<>>
    /\ run_result = "none"
    /\ manager = NoManager
    /\ engine_calls = <<>>

InitValidation ==
    /\ \E w \in Worlds :
          /\ properties = w.props
          /\ scene = SceneOf(w)
          /\ env_dev = w.env
    /\ ValidationIdle
    /\ call = NoCall
    /\ HostIdle

NextValidation == Construct \/ Run \/ ValidationStep \/ ReturnTrue

SpecValidation == InitValidation /\ [][NextValidation]_vars

(***************************************************************************)
(* Specification of the LOD naming utilities                               *)
(***************************************************************************)
InitLod ==
    /\ \E rx \in LodRegexes, lods \in BOOLEAN :
          properties = [DefaultProperties EXCEPT !.lod_regex = rx, !.import_lods = lods]
    /\ scene = BaseScene
    /\ env_dev = "unset"
    /\ ValidationIdle
    /\ call = NoCall
    /\ HostIdle

NextLod == ExtractRegexFlags \/ GetLod0Name \/ GetLodIndex \/ GetAssetName

SpecLod == InitLod /\ [][NextLod]_vars

(***************************************************************************)
(* Specification of collision matching                                     *)
(***************************************************************************)
InitCollision ==
    /\ \E rx \in CollisionRegexes :
          properties = [DefaultProperties EXCEPT !.lod_regex = rx, !.import_lods = TRUE]
    /\ scene = BaseScene
    /\ env_dev = "unset"
    /\ ValidationIdle
    /\ call = NoCall
    /\ HostIdle

NextCollision == IsCollisionOf

SpecCollision == InitCollision /\ [][NextCollision]_vars

(***************************************************************************)
(* Properties of the validation pipeline                                   *)
(***************************************************************************)
Failed(j) == invoked[j].out # "True"

\* C1: run() invokes the checks in list order, each at most once, invokes no
\* check after the first one that does not return True, and returns True
\* exactly when all of the list was invoked and every check returned True.
C1_FailFastInOrder ==
    /\ Len(invoked) <= Len(validations)
    /\ \A j \in 1..Len(invoked) : invoked[j].check = validations[j]
    /\ \A j \in 1..Len(invoked) : Failed(j) => j = Len(invoked)
    /\ (run_result = "True") <=>
          /\ pc = "done"
          /\ Len(invoked) = Len(validations)
          /\ \A j \in 1..Len(invoked) : ~Failed(j)
    /\ (pc = "done" /\ run_result # "True") =>
          /\ invoked # <<>>
          /\ Failed(Len(invoked))

\* run() has ended with False at a check in the middle of the list
C1_Witness ==
    /\ pc = "done"
    /\ run_result = "False"
    /\ Len(invoked) = 6
    /\ invoked[6].out = "False"

\* C2: without SEND2UE_DEV a failing check is a soft failure: it returns
\* False with the message stored and the popup shown, and nothing is raised.
C2_SoftFailureWithoutDev ==
    (env_dev = "unset" /\ invoked # <<>> /\ Failed(Len(invoked))) =>
        /\ invoked[Len(invoked)].out = "False"
        /\ wm.error_message # ""
        /\ wm.popups = 1
        /\ run_result = "False"

MalformedLodRegex(lod_regex) == LodSearch(<<>>, lod_regex).err

\* C5: with import_lods, a mesh object and a malformed lod_regex (developer
\* mode off), validate_lod_names reports the invalid pattern and returns False.
C5_MalformedLodRegexReturnsFalse ==
    \A j \in 1..Len(invoked) :
       (/\ invoked[j].check = "validate_lod_names"
        /\ env_dev = "unset"
        /\ properties.import_lods
        /\ manager.mesh_objects # <<>>
        /\ MalformedLodRegex(properties.lod_regex)) =>
           /\ invoked[j].out = "False"
           /\ wm.error_message = "Invalid lod_regex pattern. Please check your regex syntax."
           /\ run_result = "False"

(***************************************************************************)
(* Properties of the LOD naming utilities                                  *)
(***************************************************************************)
LodFunctions == {"get_lod0_name", "get_lod_index", "get_asset_name"}

\* the string the called function hands to re.search
SearchedName ==
    IF call.fn = "get_asset_name" THEN SubInvalid(Strip(call.name)) ELSE call.name

\* the called function applied to another name
CalledOn(n) ==
    CASE call.fn = "get_lod0_name" -> get_lod0_name(n, properties)
      [] call.fn = "get_lod_index" -> get_lod_index(n, properties)
      [] call.fn = "get_asset_name" -> get_asset_name(n, properties, call.lod)

\* C3: get_asset_name applied to its own result returns that result.
C3_GetAssetNameIdempotent ==
    (call.fn = "get_asset_name" /\ call.out.raised = "none") =>
        get_asset_name(call.out.value, properties, call.lod) = call.out

\* what a function returns when the pattern finds nothing
Degraded ==
    CASE call.fn = "get_lod0_name" -> Returned(call.name)
      [] call.fn = "get_lod_index" -> Returned(0)
      [] call.fn = "get_asset_name" -> Returned(SubInvalid(Strip(call.name)))

\* C4: no naming function raises, whatever the name and the lod_regex; with a
\* malformed lod_regex each returns its degraded value.
C4_NamingNeverRaises ==
    call.fn \in LodFunctions =>
        /\ call.out.raised = "none"
        /\ MalformedLodRegex(properties.lod_regex) => call.out = Degraded

HasIgnoreCasePrefix(p) == StartsWith(p, <<"(", "?", "i", ")">>)

\* every letter of the matched text stands as a literal in the pattern text
ExactCase(m, s, p) ==
    \A k \in m.from..(m.to - 1) :
       IsAsciiLetter(s[k]) =>
          \E j \in 1..Len(p) : p[j] = s[k] /\ (j = 1 \/ p[j - 1] # "\\")

SwapOut(out) ==
    IF out.raised # "none" \/ call.fn = "get_lod_index" THEN out
    ELSE Returned(SwapCase(out.value))

\* re.search(lod_regex, name): the pattern as the user wrote it, its leading
\* inline flags read by the re module itself
SearchAsWritten(name, lod_regex_raw) == SearchCompiled(Compile(lod_regex_raw, FALSE), name)

\* the functions' search finds the text the written pattern matches in the name
FindsWhatIsWritten(found, written) ==
    written.err \/ (found.m.found = written.m.found /\ found.m.from = written.m.from
                                                   /\ found.m.to = written.m.to)

\* with the (?i) prefix the functions find the text that matches the pattern
\* up to letter case, and the outcome does not depend on the case of the name
CaseInsensitiveWithPrefix ==
    (call.fn \in LodFunctions /\ HasIgnoreCasePrefix(properties.lod_regex)) =>
        /\ FindsWhatIsWritten(LodSearch(SearchedName, properties.lod_regex),
                              SearchAsWritten(SearchedName, properties.lod_regex))
        /\ CalledOn(SwapCase(call.name)) = SwapOut(call.out)
        /\ LodSearch(LowerStr(SearchedName), properties.lod_regex).m.found
              = LodSearch(SearchedName, properties.lod_regex).m.found

CaseSensitiveMatch ==
    LET r == LodSearch(SearchedName, properties.lod_regex)
    IN  r.m.found => ExactCase(r.m, SearchedName, properties.lod_regex)

\* C6: LOD matching is case-insensitive exactly when lod_regex begins with
\* (?i): with that prefix the three functions find the text that matches the
\* pattern up to letter case, and for any pattern that does not begin with
\* (?i) only text in the case the pattern spells is matched.
C6_CaseInsensitiveExactlyWithPrefix ==
    /\ CaseInsensitiveWithPrefix
    /\ (call.fn \in LodFunctions /\ ~HasIgnoreCasePrefix(properties.lod_regex)) =>
           CaseSensitiveMatch

\* the index the final character of the whole match stands for
WholeMatchIndex(r, s) ==
    IF r.err \/ ~r.m.found \/ r.m.to = r.m.from THEN 0
    ELSE IF DigitValue(s[r.m.to - 1]) < 0 THEN 0
    ELSE DigitValue(s[r.m.to - 1])

\* C9: get_lod_index returns the value of the final character of the text the
\* whole lod_regex matched, and 0 without a match or a final digit.
C9_LodIndexIsFinalCharOfMatch ==
    call.fn = "get_lod_index" =>
        call.out = Returned(WholeMatchIndex(LodSearch(call.name, properties.lod_regex),
                                            call.name))

\* C10: get_lod0_name returns the name unchanged without a match; with a match
\* the result has the length of the name and differs from it at most at the
\* final character of the matched text, which becomes "0".
C10_Lod0ChangesOnePosition ==
    call.fn = "get_lod0_name" =>
        LET r == LodSearch(call.name, properties.lod_regex)
            out == call.out
        IN  /\ out.raised = "none"
            /\ IF r.err \/ ~r.m.found THEN out.value = call.name
               ELSE /\ Len(out.value) = Len(call.name)
                    /\ \A k \in 1..Len(call.name) :
                          IF k = r.m.to - 1 /\ r.m.to > r.m.from
                          THEN out.value[k] = "0"
                          ELSE out.value[k] = call.name[k]

(***************************************************************************)
(* Properties of collision matching                                        *)
(***************************************************************************)
CollisionPrefixes == {token \o <<"_">> : token \in PreFixToken}

\* "_" followed by one or more digits
IsNumericSuffix(t) ==
    /\ Len(t) >= 2
    /\ t[1] = "_"
    /\ \A k \in 2..Len(t) : t[k] \in Digits

\* c is prefix + A or prefix + A + "_" + digits
IsCollisionForm(c, A) ==
    \E pre \in CollisionPrefixes :
       /\ StartsWith(c, pre \o A)
       /\ LET rest == SubSeq(c, Len(pre) + Len(A) + 1, Len(c))
          IN  rest = <<>> \/ IsNumericSuffix(rest)

\* C7: a candidate that is, once trimmed, a collision prefix followed by the
\* asset name and an optional "_" + digits is a collision of the asset, for
\* every lod_regex.
C7_BasicFormAccepted ==
    (call.fn = "is_collision_of" /\ IsCollisionForm(Strip(call.mesh), call.name)) =>
        call.out = Returned(TRUE)

\* a padded candidate with a numeric suffix was accepted under a malformed
\* lod_regex
C7_Witness ==
    /\ call.fn = "is_collision_of"
    /\ properties.lod_regex = RxUnclosed
    /\ call.name = <<"+">>
    /\ call.mesh = <<" ", "U", "C", "X", "_", "+", "_", "1", "1", " ">>
    /\ call.out = Returned(TRUE)

\* C8: is_collision_of returns True only for a candidate that, once trimmed,
\* begins with one of the four upper-case prefixes immediately followed by
\* the asset name, for every lod_regex.
C8_AcceptedOnlyWithPrefixAndAsset ==
    (call.fn = "is_collision_of" /\ call.out.value = TRUE) =>
        \E pre \in CollisionPrefixes : StartsWith(Strip(call.mesh), pre \o call.name)

\* C11: get_asset_name returns something other than the trimmed, normalized
\* name only when import_lods is set, the lod argument is false and lod_regex
\* matches the normalized name; without import_lods it returns the normalized
\* name whatever lod_regex is.
C11_LodRemovedOnlyWithImportLods ==
    call.fn = "get_asset_name" =>
        /\ ~properties.import_lods => call.out = Returned(SubInvalid(Strip(call.name)))
        /\ call.out # Returned(SubInvalid(Strip(call.name))) =>
              /\ properties.import_lods
              /\ ~call.lod
              /\ LodSearch(SubInvalid(Strip(call.name)), properties.lod_regex).m.found

\* a name the pattern matches was returned whole because import_lods is off
C11_Witness ==
    /\ call.fn = "get_asset_name"
    /\ ~properties.import_lods
    /\ ~call.lod
    /\ properties.lod_regex = RxPlain
    /\ call.name = <<" ", "L", "1">>
    /\ call.out = Returned(<<"L", "1">>)

(***************************************************************************)
(* Properties of the flag extraction                                       *)
(***************************************************************************)
\* the length of a leading token "(?" letters ")" of p, 0 when p has none
LeadingTokenLen(p) ==
    IF \E n \in 3..Len(p) :
          /\ p[1] = "(" /\ p[2] = "?" /\ p[n] = ")"
          /\ \A k \in 3..(n - 1) : IsAsciiLetter(p[k])
    THEN CHOOSE n \in 3..Len(p) :
          /\ p[1] = "(" /\ p[2] = "?" /\ p[n] = ")"
          /\ \A k \in 3..(n - 1) : IsAsciiLetter(p[k])
    ELSE 0

DropFirst(p, n) == SubSeq(p, n + 1, Len(p))

\* what holds of the extraction for a pattern without the (?i) prefix, and
\* the flag itself
ExtractionWithoutPrefix(p, r) ==
    /\ r.ic <=> HasIgnoreCasePrefix(p)
    /\ ~HasIgnoreCasePrefix(p) => r.pattern = DropFirst(p, LeadingTokenLen(p))

\* C12 as stated: the flag is returned exactly for a pattern that starts with
\* (?i), whose cleaned pattern is the pattern without that token; any other
\* leading token is removed and gives no flag; a pattern without a leading
\* token comes back unchanged; nothing is raised.
C12_ExtractStripsExactlyThePrefix ==
    call.fn = "_extract_regex_flags" =>
        /\ call.out.raised = "none"
        /\ ExtractionWithoutPrefix(properties.lod_regex, call.out.value)
        /\ HasIgnoreCasePrefix(properties.lod_regex) =>
              call.out.value.pattern = DropFirst(properties.lod_regex, 4)

\* C12 amended: as above, but after the (?i) prefix one directly following
\* leading token "(?" letters ")" is removed from the cleaned pattern too.
C12_ExtractStripsPrefixAndOneToken ==
    call.fn = "_extract_regex_flags" =>
        /\ call.out.raised = "none"
        /\ ExtractionWithoutPrefix(properties.lod_regex, call.out.value)
        /\ HasIgnoreCasePrefix(properties.lod_regex) =>
              call.out.value.pattern =
                 DropFirst(DropFirst(properties.lod_regex, 4),
                           LeadingTokenLen(DropFirst(properties.lod_regex, 4)))

\* (?i)(?m)L\d was cleaned to L\d with the flag set
C12_Witness ==
    /\ call.fn = "_extract_regex_flags"
    /\ properties.lod_regex = RxTwoTokens
    /\ call.out = Returned([pattern |-> RxPlain, ic |-> TRUE])

(***************************************************************************)
(* Specification of error reporting: report_error and is_unreal_connected  *)
(* called directly, any number of times, under each setting of SEND2UE_DEV *)
(***************************************************************************)
MaxReports == 2

\* values of SEND2UE_DEV: not set, set to the empty string, set to a text
EnvValues == {"unset", "", "1", "0"}

ErrorMessages == {WarningMessage, "Scene scale is not 1! Please set it to 1."}
ErrorDetails == {"", "details"}

\* what a call of report_error leaves behind: r is what report_error gave
ReportOutcome(message, details, raise_exception, r) ==
    /\ call' = [NoCall EXCEPT
                  !.fn = "report_error",
                  !.args = [message |-> message, details |-> details,
                            raise_exception |-> raise_exception, wm |-> wm],
                  !.out = IF r.raised THEN Raised("RuntimeError") ELSE Returned("None")]
    /\ wm' = r.wm

ReportError ==
    /\ wm.popups < MaxReports
    /\ \E message \in ErrorMessages, details \in ErrorDetails, raise_exception \in BOOLEAN :
          ReportOutcome(message, details, raise_exception,
                        report_error(message, details, raise_exception, env_dev, wm))
    /\ UNCHANGED <<host, properties, scene, env_dev, pc, idx, invoked, run_result, manager,
                   engine_calls>>

\* what a call of is_unreal_connected leaves behind: r is what it gave
ConnectedOutcome(r) ==
    /\ call' = [NoCall EXCEPT
                  !.fn = "is_unreal_connected",
                  !.args = [wm |-> wm],
                  !.out = IF r.out = "RuntimeError" THEN Raised("RuntimeError")
                          ELSE Returned(r.out)]
    /\ wm' = r.wm
    /\ engine_calls' = r.calls

IsUnrealConnected ==
    /\ wm.popups < MaxReports
    /\ ConnectedOutcome(is_unreal_connected(properties, scene, env_dev, wm, <<>>))
    /\ UNCHANGED <<host, properties, scene, env_dev, pc, idx, invoked, run_result, manager>>

InitReport ==
    /\ \E mode \in ProjectPathModes \cup DiskPathModes :
          properties = [DefaultProperties EXCEPT !.path_mode = mode]
    /\ \E running \in BOOLEAN : scene = [BaseScene EXCEPT !.unreal_running = running]
    /\ env_dev \in EnvValues
    /\ ValidationIdle
    /\ call = NoCall
    /\ HostIdle

NextReport == ReportError \/ IsUnrealConnected

SpecReport == InitReport /\ [][NextReport]_vars

\* C13: with SEND2UE_DEV set, to any value, report_error of a message that is
\* no warning raises RuntimeError whatever raise_exception is, and leaves the
\* error message, its details and the popups as they were.
C13_DevModeAlwaysRaises ==
    (/\ call.fn = "report_error"
     /\ env_dev # "unset"
     /\ call.args.message # WarningMessage) =>
        /\ call.out = Raised("RuntimeError")
        /\ wm = call.args.wm

\* C14 as stated: with a path mode other than disk-only and no editor to
\* connect to, is_unreal_connected raises to its caller.
C14_NoConnectionRaises ==
    (/\ call.fn = "is_unreal_connected"
     /\ properties.path_mode # "send_to_disk"
     /\ ~scene.unreal_running) =>
        call.out = Raised("RuntimeError")

\* C14 amended: with a path mode other than disk-only, no editor to connect
\* to and SEND2UE_DEV not set, is_unreal_connected stores the message, opens
\* the popup and returns False; nothing is raised.
C14_NoConnectionIsSoftWithoutDev ==
    (/\ call.fn = "is_unreal_connected"
     /\ properties.path_mode # "send_to_disk"
     /\ ~scene.unreal_running
     /\ env_dev = "unset") =>
        /\ call.out = Returned("False")
        /\ wm.error_message = "Could not find an open Unreal Editor instance!"
        /\ wm.popups = call.args.wm.popups + 1

\* the popup was opened for a failed connection and False came back
C14_Witness ==
    /\ call.fn = "is_unreal_connected"
    /\ properties.path_mode = "send_to_project"
    /\ ~scene.unreal_running
    /\ env_dev = "unset"
    /\ call.out = Returned("False")
    /\ wm.popups = 1

(***************************************************************************)
(* Specification of the context save and restore: get_current_context and  *)
(* set_context among selections, activations, frame changes and hiding     *)
(***************************************************************************)
MaxFrame == 2

\* bpy.context.scene.objects; no object is deleted
SceneObjects == {"Cube", "Armature"}

Frames == 1..MaxFrame

\* Object.select_set as the host does it: a hidden object cannot be selected
select_set(v, o, state) ==
    IF state
    THEN IF o \in v.hidden THEN v ELSE [v EXCEPT !.selected = @ \cup {o}]
    ELSE [v EXCEPT !.selected = @ \ {o}]

\* Object.hide_set as the host does it: hiding an object deselects it
hide_set(v, o, state) ==
    IF state
    THEN [v EXCEPT !.hidden = @ \cup {o}, !.selected = @ \ {o}]
    ELSE [v EXCEPT !.hidden = @ \ {o}]

\* utilities.get_current_context
get_current_context(v) ==
    [saved |-> TRUE,
     active_object |-> v.active,
     selected_objects |-> v.selected,
     current_frame |-> v.frame_current,
     visible_objects |-> SceneObjects \ v.hidden]

\* utilities.deselect_all_objects
deselect_all_objects(v) == [v EXCEPT !.selected = {}]

\* set_context: select_set(True) on each saved object, which leaves a hidden one alone
RestoreSelected(v, context_data) ==
    [v EXCEPT !.selected = @ \cup (context_data.selected_objects \ v.hidden)]

\* set_context: the active object is assigned only when the saved one is truthy
RestoreActive(v, context_data) ==
    IF context_data.active_object # "None" /\ context_data.active_object \in SceneObjects
    THEN [v EXCEPT !.active = context_data.active_object]
    ELSE v

\* set_context: the saved frame is assigned
RestoreFrame(v, context_data) == [v EXCEPT !.frame_current = context_data.current_frame]

\* utilities.set_context
set_context(v, context_data) ==
    RestoreFrame(
        RestoreActive(RestoreSelected(deselect_all_objects(v), context_data), context_data),
        context_data)

\* the view layer after an operation of the given kind, noted since the last save
ViewStep(fn, v) ==
    /\ view_layer' = [v EXCEPT !.since = @ \cup {fn}]
    /\ call' = [NoCall EXCEPT !.fn = fn]
    /\ UNCHANGED <<properties, scene, env_dev, wm, pc, idx, invoked, run_result, manager,
                   engine_calls, timers, execution_queue>>

GetCurrentContext ==
    /\ view_layer' = [view_layer EXCEPT !.context_data = get_current_context(view_layer),
                                        !.since = {}]
    /\ call' = [NoCall EXCEPT !.fn = "get_current_context"]
    /\ UNCHANGED <<properties, scene, env_dev, wm, pc, idx, invoked, run_result, manager,
                   engine_calls, timers, execution_queue>>

SelectSet ==
    \E o \in SceneObjects, state \in BOOLEAN :
        ViewStep("select_set", select_set(view_layer, o, state))

SetActive ==
    \E o \in SceneObjects \cup {"None"} :
        ViewStep("active", [view_layer EXCEPT !.active = o])

FrameSet ==
    \E f \in Frames : ViewStep("frame_set", [view_layer EXCEPT !.frame_current = f])

HideSet ==
    \E o \in SceneObjects, state \in BOOLEAN :
        ViewStep("hide_set", hide_set(view_layer, o, state))

SetContext ==
    /\ view_layer.context_data.saved
    /\ ViewStep("set_context", set_context(view_layer, view_layer.context_data))

InitContext ==
    /\ properties = DefaultProperties
    /\ scene = BaseScene
    /\ env_dev = "unset"
    /\ ValidationIdle
    /\ call = NoCall
    /\ HostIdle

NextContext == GetCurrentContext \/ SelectSet \/ SetActive \/ FrameSet \/ HideSet \/ SetContext

SpecContext == InitContext /\ [][NextContext]_vars

\* set_context has just restored a context saved before operations of these kinds only
RestoredAfterOnly(kinds) ==
    /\ call.fn = "set_context"
    /\ view_layer.since \subseteq kinds \cup {"set_context"}

\* C15: after S = get_current_context() and any selections, deselections,
\* activations and frame changes, set_context(S) leaves the selected objects,
\* the active object (none, when none was active in S) and the current frame
\* as they are in S.
C15_SelectionActiveFrameRestored ==
    RestoredAfterOnly({"select_set", "active", "frame_set"}) =>
        /\ view_layer.selected = view_layer.context_data.selected_objects
        /\ view_layer.active = view_layer.context_data.active_object
        /\ view_layer.frame_current = view_layer.context_data.current_frame

\* C16: after S = get_current_context() and any hiding and showing of objects,
\* set_context(S) makes the visible objects of the scene those of S.
C16_VisibilityRestored ==
    RestoredAfterOnly({"hide_set"}) =>
        SceneObjects \ view_layer.hidden = view_layer.context_data.visible_objects

(***************************************************************************)
(* Specification of the project setup: setup_project called by the add-on  *)
(* and by the timers it registers, while the scene properties come and go  *)
(***************************************************************************)
MaxTimers == 2

\* setup_project registering its timer whether or not the properties are there
setup_project_always_registers(t) ==
    [steps |->
        <<"remove_temp_folder", "create_default_template", "timers.register",
          "reload_extensions">>
        \o (IF t.addon_enabled /\ t.automatically_create_collections
            THEN <<"create_collections">> ELSE <<>>)
        \o (IF ~t.unpipe_installed THEN <<"add_pipeline_menu">> ELSE <<>>),
     timers |->
        [t EXCEPT
           !.registered = @ + 1,
           !.collections = @ \/ (t.addon_enabled /\ t.automatically_create_collections),
           !.pipeline_menu = @ \/ ~t.unpipe_installed]]

\* utilities.setup_project: the calls it makes, in order, and the state it leaves
setup_project(t) ==
    [steps |->
        <<"remove_temp_folder", "create_default_template">>
        \o (IF ~t.properties_available THEN <<"timers.register">> ELSE <<>>)
        \o <<"reload_extensions">>
        \o (IF t.addon_enabled /\ t.automatically_create_collections
            THEN <<"create_collections">> ELSE <<>>)
        \o (IF ~t.unpipe_installed THEN <<"add_pipeline_menu">> ELSE <<>>),
     timers |->
        [t EXCEPT
           !.registered = IF ~t.properties_available THEN @ + 1 ELSE @,
           !.collections = @ \/ (t.addon_enabled /\ t.automatically_create_collections),
           !.pipeline_menu = @ \/ ~t.unpipe_installed]]

\* what an invocation of setup_project leaves behind: r is what setup_project gave
SetupOutcome(by, r) ==
    /\ timers' = r.timers
    /\ call' = [NoCall EXCEPT
                  !.fn = "setup_project",
                  !.args = [by |-> by, available |-> timers.properties_available,
                            steps |-> r.steps]]
    /\ UNCHANGED <<properties, scene, env_dev, wm, pc, idx, invoked, run_result, manager,
                   engine_calls, view_layer, execution_queue>>

\* the add-on calls setup_project when it is registered or a file is loaded
SetupProject ==
    /\ timers.registered < MaxTimers
    /\ SetupOutcome("addon", setup_project(timers))

\* the host runs a due timer; setup_project returns None, which removes that timer
TimerFires ==
    /\ timers.registered > 0
    /\ SetupOutcome("timer", setup_project([timers EXCEPT !.registered = @ - 1]))

\* the scene properties appear (the property group is registered on the scene)
RegisterProperties ==
    /\ ~timers.properties_available
    /\ timers' = [timers EXCEPT !.properties_available = TRUE]
    /\ call' = [NoCall EXCEPT !.fn = "register"]
    /\ UNCHANGED <<properties, scene, env_dev, wm, pc, idx, invoked, run_result, manager,
                   engine_calls, view_layer, execution_queue>>

\* the scene properties go away (the property group is unregistered)
UnregisterProperties ==
    /\ timers.properties_available
    /\ timers' = [timers EXCEPT !.properties_available = FALSE]
    /\ call' = [NoCall EXCEPT !.fn = "unregister"]
    /\ UNCHANGED <<properties, scene, env_dev, wm, pc, idx, invoked, run_result, manager,
                   engine_calls, view_layer, execution_queue>>

InitSetup ==
    /\ properties = DefaultProperties
    /\ scene = BaseScene
    /\ env_dev = "unset"
    /\ ValidationIdle
    /\ call = NoCall
    /\ view_layer = [selected |-> {}, hidden |-> {}, active |-> "None", frame_current |-> 1,
                     context_data |-> NoContext, since |-> {}]
    /\ execution_queue = <<>>
    /\ \E available \in BOOLEAN, enabled \in BOOLEAN, auto \in BOOLEAN, unpipe \in BOOLEAN :
          timers = [NoTimers EXCEPT
                      !.properties_available = available,
                      !.addon_enabled = enabled,
                      !.automatically_create_collections = auto,
                      !.unpipe_installed = unpipe]

NextSetup == SetupProject \/ TimerFires \/ RegisterProperties \/ UnregisterProperties

SpecSetup == InitSetup /\ [][NextSetup]_vars

\* the host's event loop runs every timer that stays registered
SpecSetupFair == SpecSetup /\ WF_vars(TimerFires)

\* how many times setup_project called bpy.app.timers.register
TimersRegisteredBy(steps) ==
    Cardinality({i \in DOMAIN steps : steps[i] = "timers.register"})

\* C17: an invocation of setup_project registers exactly one timer when it
\* finds the scene properties unavailable and none when it finds them
\* available; and once the properties are available for good, eventually no
\* timer is pending any more: the chain of retries stops.
C17_RetryUntilPropertiesAvailable ==
    /\ [](call.fn = "setup_project" =>
            TimersRegisteredBy(call.args.steps) = (IF call.args.available THEN 0 ELSE 1))
    /\ (<>[]timers.properties_available) => <>[](timers.registered = 0)

\* a timer has re-run setup_project, found the properties and left no timer pending
C17_Witness ==
    /\ call.fn = "setup_project"
    /\ call.args.by = "timer"
    /\ call.args.available
    /\ timers.registered = 0

(***************************************************************************)
(* Specification of the deferred execution: functions decorated with       *)
(* track_progress are called, and the execution queue is drained           *)
(***************************************************************************)
MaxJobs == 2

\* functions decorated with track_progress(message, attribute)
DecoratedFunctions ==
    {[function |-> "export_file", message |-> "Exporting asset", attribute |-> "file_path"],
     [function |-> "import_asset", message |-> "Importing asset", attribute |-> ""]}

\* the positional and the keyword arguments of a call
PositionalArgs == {<<>>, <<"asset_a">>, <<"asset_b">>, <<"asset_a", "properties">>}
KeywordArgs == {<<>>, <<"lod">>}

\* track_progress: the wrapper reads args[0] and puts one job on the queue; the
\* wrapped function is not called. args[0] of an empty tuple raises IndexError.
wrapper(d, args, kwargs, queue) ==
    IF args = <<>>
    THEN [raised |-> "IndexError", queue |-> queue, executed |-> <<>>]
    ELSE [raised |-> "none",
          queue |-> Append(queue, [function |-> d.function, args |-> args, kwargs |-> kwargs,
                                   message |-> d.message, asset_id |-> args[1],
                                   attribute |-> d.attribute]),
          executed |-> <<>>]

\* what a call of a decorated function leaves behind: r is what the wrapper gave
WrapperOutcome(d, args, kwargs, r) ==
    /\ execution_queue' = r.queue
    /\ call' = [NoCall EXCEPT
                  !.fn = "wrapper",
                  !.args = [decorated |-> d, args |-> args, kwargs |-> kwargs,
                            queue |-> execution_queue, executed |-> r.executed],
                  !.out = IF r.raised = "none" THEN Returned("None") ELSE Raised(r.raised)]
    /\ UNCHANGED <<properties, scene, env_dev, wm, pc, idx, invoked, run_result, manager,
                   engine_calls, view_layer, timers>>

CallDecorated ==
    /\ Len(execution_queue) < MaxJobs
    /\ \E d \in DecoratedFunctions, args \in PositionalArgs, kwargs \in KeywordArgs :
          WrapperOutcome(d, args, kwargs, wrapper(d, args, kwargs, execution_queue))

\* the queue is drained one job at a time, first in first out, and the job is run
DrainJob ==
    /\ execution_queue # <<>>
    /\ execution_queue' = Tail(execution_queue)
    /\ call' = [NoCall EXCEPT
                  !.fn = "get",
                  !.args = [job |-> Head(execution_queue), queue |-> execution_queue,
                            executed |-> <<Head(execution_queue).function>>]]
    /\ UNCHANGED <<properties, scene, env_dev, wm, pc, idx, invoked, run_result, manager,
                   engine_calls, view_layer, timers>>

InitQueue ==
    /\ properties = DefaultProperties
    /\ scene = BaseScene
    /\ env_dev = "unset"
    /\ ValidationIdle
    /\ call = NoCall
    /\ HostIdle

NextQueue == CallDecorated \/ DrainJob

SpecQueue == InitQueue /\ [][NextQueue]_vars

\* the job a call of the decorated function d is to leave on the queue
JobOf(d, args, kwargs) ==
    [function |-> d.function, args |-> args, kwargs |-> kwargs, message |-> d.message,
     asset_id |-> IF args = <<>> THEN "none" ELSE args[1], attribute |-> d.attribute]

\* C18: a call of a function decorated with track_progress does not run the
\* wrapped function; it appends exactly one job (function, args, kwargs,
\* message, asset_id = first positional argument, attribute) at the end of the
\* execution queue, so the queue grows by one with each call, and draining
\* takes the jobs in the order of the calls.
C18_EachCallQueuesOneJob ==
    /\ call.fn = "wrapper" =>
          /\ call.args.executed = <<>>
          /\ call.out = Returned("None")
          /\ execution_queue =
                Append(call.args.queue,
                       JobOf(call.args.decorated, call.args.args, call.args.kwargs))
    /\ call.fn = "get" =>
          /\ call.args.job = Head(call.args.queue)
          /\ execution_queue = Tail(call.args.queue)

(***************************************************************************)
(* Properties of single checks of the validation pipeline                  *)
(***************************************************************************)

\* the object sets captured at construction hold nothing to export
NothingToExport ==
    /\ manager.mesh_objects = <<>>
    /\ manager.rig_objects = <<>>
    /\ manager.hair_objects = <<>>

\* C19: run() returns True only if at least one of the mesh, rig and hair
\* object sets captured at construction is non-empty, whatever the settings of
\* the validation toggles are.
C19_TrueOnlyWithExportObjects ==
    run_result = "True" => ~NothingToExport

\* run() returned True for an export that holds a mesh
C19_Witness ==
    /\ run_result = "True"
    /\ manager.mesh_objects # <<>>

\* every polygon of the mesh points at a slot, and every slot has a polygon
SlotsAllReferenced(mesh) ==
    /\ \A j \in DOMAIN mesh.polygons : mesh.polygons[j] < Len(mesh.material_slots)
    /\ \A k \in DOMAIN mesh.material_slots :
          \E j \in DOMAIN mesh.polygons : mesh.polygons[j] = k - 1

\* C20: with validate_materials enabled, validate_materials returns True only
\* if, for every mesh with at least one material slot, every polygon's
\* material index is below the number of slots and every slot, also one that
\* shares its material name with another slot, is referenced by a polygon.
C20_MaterialsTrueOnlyIfAllSlotsUsed ==
    \A i \in DOMAIN invoked :
        (/\ invoked[i].check = "validate_materials"
         /\ invoked[i].out = "True"
         /\ properties.validate_materials) =>
            \A j \in DOMAIN manager.mesh_objects :
                manager.mesh_objects[j].material_slots # <<>> =>
                    SlotsAllReferenced(manager.mesh_objects[j])

(***************************************************************************)
(* Specification of the engine contact: is_unreal_connected and            *)
(* validate_project_settings called directly, in every path mode           *)
(***************************************************************************)
ProjectSettingsValues == {"ok", "empty", "raises", "startup_map", "default_map"}

\* what a call of validate_project_settings leaves behind: r is what it gave
ProjectSettingsOutcome(r) ==
    /\ call' = [NoCall EXCEPT
                  !.fn = "validate_project_settings",
                  !.args = [wm |-> wm],
                  !.out = IF r.out = "RuntimeError" THEN Raised("RuntimeError")
                          ELSE Returned(r.out)]
    /\ wm' = r.wm
    /\ engine_calls' = r.calls

ValidateProjectSettings ==
    /\ wm.popups < MaxReports
    /\ ProjectSettingsOutcome(
          validate_project_settings(NoManager, properties, scene, env_dev, wm, <<>>))
    /\ UNCHANGED <<host, properties, scene, env_dev, pc, idx, invoked, run_result, manager>>

InitEngine ==
    /\ \E mode \in ProjectPathModes \cup DiskPathModes, toggle \in BOOLEAN :
          properties = [DefaultProperties EXCEPT !.path_mode = mode,
                                                 !.validate_project_settings = toggle]
    /\ \E running \in BOOLEAN, settings \in ProjectSettingsValues,
          application \in {"ue4", "ue5"} :
          scene = [BaseScene EXCEPT !.unreal_running = running,
                                    !.project_settings = settings,
                                    !.source_application = application]
    /\ env_dev \in EnvValues
    /\ ValidationIdle
    /\ call = NoCall
    /\ HostIdle

NextEngine == IsUnrealConnected \/ ValidateProjectSettings

SpecEngine == InitEngine /\ [][NextEngine]_vars

\* the call returned True, left the error state alone and made no engine call
ReturnedTrueWithoutEngine ==
    /\ call.out = Returned("True")
    /\ engine_calls = <<>>
    /\ wm = call.args.wm

\* C21: in the disk-only path mode is_unreal_connected returns True without
\* bootstrapping the RPC server, and validate_project_settings returns True
\* without a connection attempt or a project-settings call; so does
\* validate_project_settings when its toggle is off.
C21_EngineContactedOnlyWhenRequired ==
    /\ (call.fn = "is_unreal_connected" /\ properties.path_mode = "send_to_disk")
          => ReturnedTrueWithoutEngine
    /\ (/\ call.fn = "validate_project_settings"
        /\ (properties.path_mode = "send_to_disk" \/ ~properties.validate_project_settings))
          => ReturnedTrueWithoutEngine

\* disk-only, the check on, no editor open: the check passed without the engine
C21_Witness ==
    /\ call.fn = "validate_project_settings"
    /\ properties.path_mode = "send_to_disk"
    /\ properties.validate_project_settings
    /\ ~scene.unreal_running
    /\ ReturnedTrueWithoutEngine

(***************************************************************************)
(* Specification of the collision lookup: get_asset_collisions on export   *)
(* collections of assets and collision meshes, visible or hidden           *)
(***************************************************************************)
MaxMeshes == 2

CubeName == <<"C", "u", "b", "e">>
BallName == <<"B", "a", "l", "l">>

\* names of meshes of the export collection: assets, collisions, other meshes
MeshNames ==
    {CubeName,
     BallName,
     <<"U", "B", "X", "_">> \o CubeName,
     <<"U", "C", "X", "_">> \o CubeName \o <<"_", "0", "1">>,
     <<"U", "S", "P", "_">> \o BallName,
     <<" ", "U", "B", "X", "_">> \o CubeName}

MeshObjects ==
    {[BaseMesh EXCEPT !.name = n, !.visible = v] : n \in MeshNames, v \in BOOLEAN}

\* collections of at most MaxMeshes meshes, no two of one name
ExportCollections ==
    {c \in SUBSET MeshObjects :
        /\ Cardinality(c) <= MaxMeshes
        /\ \A o \in c, q \in c : o.name = q.name => o = q}

\* the loop of get_asset_collisions over mesh_objects, from mesh j on
RECURSIVE CollisionsLoop(_, _, _, _)
CollisionsLoop(mesh_objects, j, asset_name, props) ==
    IF j > Len(mesh_objects) THEN <<>>
    ELSE (IF is_collision_of(asset_name, mesh_objects[j].name, props) = Returned(TRUE)
          THEN <<mesh_objects[j]>> ELSE <<>>)
         \o CollisionsLoop(mesh_objects, j + 1, asset_name, props)

\* utilities.get_asset_collisions
get_asset_collisions(asset_name, sc, props) ==
    CollisionsLoop(get_from_collection(sc, "MESH"), 1, asset_name, props)

GetAssetCollisions ==
    /\ call.fn = "none"
    /\ \E a \in {CubeName, BallName} :
          call' = [NoCall EXCEPT !.fn = "get_asset_collisions", !.name = a,
                                 !.out = Returned(get_asset_collisions(a, scene, properties))]
    /\ UNCHANGED <<host, properties, scene, env_dev, wm, pc, idx, invoked, run_result,
                   manager, engine_calls>>

InitAssetCollisions ==
    /\ properties = DefaultProperties
    /\ \E c \in ExportCollections : scene = [BaseScene EXCEPT !.export_collection = c]
    /\ env_dev = "unset"
    /\ ValidationIdle
    /\ call = NoCall
    /\ HostIdle

NextAssetCollisions == GetAssetCollisions

SpecAssetCollisions == InitAssetCollisions /\ [][NextAssetCollisions]_vars

\* the visible meshes of the export collection that are collisions of the asset
VisibleCollisionsOf(asset_name) ==
    {o \in scene.export_collection :
        /\ o.type = "MESH"
        /\ o.visible
        /\ is_collision_of(asset_name, o.name, properties) = Returned(TRUE)}

\* C22: get_asset_collisions(asset_name) returns exactly the visible meshes of
\* the export collection whose name is a collision name of the asset, in name
\* order; a visible mesh named UBX_<asset_name> is among them, and so is
\* every further collision mesh of the asset.
C22_ReturnsTheVisibleCollisions ==
    call.fn = "get_asset_collisions" =>
        call.out = Returned(SortByName(VisibleCollisionsOf(call.name)))

(***************************************************************************)
(* Further properties of the LOD naming utilities                          *)
(***************************************************************************)

\* C23: for every pattern, the cleaned pattern _extract_regex_flags returns
\* does not begin with an inline-flag token "(?" letters ")", so no global
\* flag ends up inside the expressions composed from it.
C23_CleanedPatternHasNoLeadingToken ==
    call.fn = "_extract_regex_flags" =>
        LeadingTokenLen(call.out.value.pattern) = 0

\* C24: for every name and every lod_regex, the LOD index of
\* get_lod0_name(name) is 0, and get_lod0_name applied to get_lod0_name(name)
\* returns it unchanged.
C24_Lod0NameHasIndexZero ==
    call.fn = "get_lod0_name" =>
        /\ call.out.raised = "none"
        /\ get_lod_index(call.out.value, properties) = Returned(0)
        /\ get_lod0_name(call.out.value, properties) = call.out

(***************************************************************************)
(* Further properties of the project setup                                 *)
(***************************************************************************)
\* the steps of setup_project that follow the check of the scene properties
InitializationSteps == {"reload_extensions", "create_collections", "add_pipeline_menu"}

\* C25: an invocation of setup_project that finds the scene properties
\* unavailable and registers the retry runs none of the initialization steps
\* that follow the check; in a chain of retries only the invocation that finds
\* the properties available runs them.
C25_NoInitializationWhileUnavailable ==
    (call.fn = "setup_project" /\ ~call.args.available) =>
        \A i \in DOMAIN call.args.steps : call.args.steps[i] \notin InitializationSteps

=============================================================================
